---- MODULE Spec2Model ----
(***************************************************************************)
(* Model of the chess match server: the Game class (server/game.py), the   *)
(* request handlers (server/server.py) and their schemas.                  *)
(*                                                                         *)
(* The rules engine (python-chess) is an external library.  It is modelled *)
(* exactly on a fragment of chess: the positions reachable from the start  *)
(* position by the moves of EngineSans (the Fool's Mate moves, the         *)
(* queen-side knights going out and back, and the pawns of files a to d    *)
(* with their captures).  On that fragment legality, check, checkmate, en  *)
(* passant and repetition are those of chess; every other SAN              *)
(* text submitted is rejected, as the engine rejects a move that is not    *)
(* legal in the position.                                                  *)
(***************************************************************************)
EXTENDS Integers, Sequences, FiniteSets, TLC

\* ------------------------------------------------------------------ bounds

\* Moves are submitted while the game has fewer plies than this.
MaxPly == 7
\* Positive clock deltas are submitted while the clock stays within this.
MaxTime == 2
\* The server receives at most this many requests.
MaxRequests == 3
\* The server handles this many requests at a time.
MaxSlots == 2
\* A controller that keeps count of the moves it has received polls at most
\* this many times.
MaxPolls == 3
\* The clock of the server runs up to this time (in seconds).
MaxNow == 120
\* Moves are made on the game of a controller while it has fewer plies.
MaxCtlPly == 4
\* Moves of the pawns are submitted while the game has fewer plies than this.
MaxCapturePly == 6

\* ---------------------------------------------------------------- constants

WHITE == "w"
BLACK == "b"
Sides == {WHITE, BLACK}

\* Python's None, for a player slot, a side argument, a reason.
None == "None"
\* Python's None for time_controls and remaining_time (never a valid clock:
\* __init__ rejects negative time controls).
NoTime == -1

SCORES(k) == CASE k = WHITE -> "1-0" [] k = BLACK -> "0-1" [] OTHER -> "1/2-1/2"

\* ------------------------------------------------------------ rules engine

\* The SAN texts the engine knows in the fragment: the moves of the pieces,
\* the pawn moves without capture (a text of these is a move for either side,
\* each with its own pawn) and the pawn captures (en passant included).
WhiteSans == {"f3", "g4", "Nc3", "Nb1", "Nd5"}
BlackSans == {"e5", "Qh4", "Qd8", "Nc6", "Nb8"}
PawnPushes == {"a4", "a5", "b4", "b5", "c4", "c6", "d5"}
PawnCaptures == {"axb6", "bxa3", "cxd5"}
PawnSans == {"f3", "g4", "e5"} \cup PawnPushes \cup PawnCaptures
EngineSans == WhiteSans \cup BlackSans \cup PawnPushes \cup PawnCaptures

\* chess.SQUARE_NAMES: the squares are numbered 0..63, a1 = 0, b1 = 1, ...,
\* h8 = 63.
SQUARE_NAMES ==
    <<
      "a1", "b1", "c1", "d1", "e1", "f1", "g1", "h1",
      "a2", "b2", "c2", "d2", "e2", "f2", "g2", "h2",
      "a3", "b3", "c3", "d3", "e3", "f3", "g3", "h3",
      "a4", "b4", "c4", "d4", "e4", "f4", "g4", "h4",
      "a5", "b5", "c5", "d5", "e5", "f5", "g5", "h5",
      "a6", "b6", "c6", "d6", "e6", "f6", "g6", "h6",
      "a7", "b7", "c7", "d7", "e7", "f7", "g7", "h7",
      "a8", "b8", "c8", "d8", "e8", "f8", "g8", "h8" >>

\* chess.square_name, and the number of a named square.
square_name(i) == IF i \in 0 .. 63 THEN SQUARE_NAMES[i + 1] ELSE None
SQUARE_NUMBERS ==
    [name \in {SQUARE_NAMES[i] : i \in 1 .. 64} |->
        CHOOSE i \in 0 .. 63 : SQUARE_NAMES[i + 1] = name]
square(name) == SQUARE_NUMBERS[name]
square_file(i) == i % 8
square_rank(i) == i \div 8

\* chess.Board(): the start position.  A position of the fragment is the side
\* to move and what distinguishes it from the start position: the pawns of
\* files f, g (White) and e (Black), the queen of Black, the queen-side
\* knights ("x": taken), the squares of the pawns of files a to d, the en
\* passant square (Board.ep_square: the square a pawn has just passed over)
\* and the halfmove clock (the moves made since the last pawn move or capture).
StartPos == [turn |-> WHITE, f3 |-> FALSE, g4 |-> FALSE, e5 |-> FALSE,
             bq |-> "d8", wn |-> "b1", bn |-> "b8",
             wp |-> {"a2", "b2", "c2", "d2"}, bp |-> {"a7", "b7", "c7", "d7"},
             ep |-> None, halfmove_clock |-> 0]

\* The board: the position, the moves made (move_stack) and the positions they
\* were made in (the board's state stack, which pop() restores).
NewBoard == [pos |-> StartPos, move_stack |-> <<>>, stack |-> <<>>]

\* Board.piece_at(square).symbol(), None on an empty square: for the squares
\* the men of the fragment stand on or move to.
piece_at(p, sq) ==
    IF sq \in p.wp THEN "P"
    ELSE IF sq \in p.bp THEN "p"
    ELSE IF sq = p.wn THEN "N"
    ELSE IF sq = p.bn THEN "n"
    ELSE IF sq = p.bq THEN "q"
    ELSE IF sq = (IF p.f3 THEN "f3" ELSE "f2") THEN "P"
    ELSE IF sq = (IF p.g4 THEN "g4" ELSE "g2") THEN "P"
    ELSE IF sq = (IF p.e5 THEN "e5" ELSE "e7") THEN "p"
    ELSE None

\* The colour of a piece symbol (upper case: White; None for no piece) and
\* str.lower of it.
color_of(symbol) ==
    IF symbol = None THEN None
    ELSE IF symbol \in {"P", "N"} THEN WHITE ELSE BLACK
lower(symbol) ==
    CASE symbol = "P" -> "p" [] symbol = "N" -> "n" [] OTHER -> symbol

other(t) == IF t = WHITE THEN BLACK ELSE WHITE

\* The square holds a man of the side to move, of the other side.
own(p, sq) == color_of(piece_at(p, sq)) = p.turn
enemy(p, sq) == color_of(piece_at(p, sq)) = other(p.turn)

\* The pawn of a side and the direction it travels in, in square numbers.
pawn(t) == IF t = WHITE THEN "P" ELSE "p"
forward(t) == IF t = WHITE THEN 8 ELSE -8

\* White is in check: the queen on h4 sees e1 through g3 and f2.
is_check(p) == p.turn = WHITE /\ p.bq = "h4" /\ p.f3

\* The square a move goes to (the SAN text names it).
to_square(san) ==
    CASE san = "f3" -> "f3" [] san = "g4" -> "g4" [] san = "Nc3" -> "c3"
      [] san = "Nb1" -> "b1" [] san = "e5" -> "e5" [] san = "Qh4" -> "h4"
      [] san = "Qd8" -> "d8" [] san = "Nc6" -> "c6" [] san = "Nb8" -> "b8"
      [] san = "Nd5" -> "d5" [] san = "axb6" -> "b6" [] san = "bxa3" -> "a3"
      [] san = "cxd5" -> "d5" [] san \in PawnPushes -> san
      [] OTHER -> None

\* The file a pawn capture leaves from (the SAN text names it), as a number.
from_file(san) ==
    CASE san = "axb6" -> 0 [] san = "bxa3" -> 1 [] san = "cxd5" -> 2

\* The square the pawn of the side to move comes from to reach the empty
\* square `to`: one step, or two steps from its first rank over an empty
\* square; None if no pawn can.
push_from(p, to) ==
    LET t == square(to)
        one == t - forward(p.turn)
        two == t - 2 * forward(p.turn)
        first == IF p.turn = WHITE THEN 1 ELSE 6
    IN IF piece_at(p, to) # None THEN None
       ELSE IF piece_at(p, square_name(one)) = pawn(p.turn) THEN square_name(one)
       ELSE IF /\ piece_at(p, square_name(one)) = None
               /\ square_rank(two) = first
               /\ piece_at(p, square_name(two)) = pawn(p.turn)
       THEN square_name(two)
       ELSE None

\* The square a pawn capture comes from: on the file named, one rank behind.
capture_from(p, san) ==
    LET t == square(to_square(san))
    IN square_name(8 * square_rank(t - forward(p.turn)) + from_file(san))

\* The square a move comes from, in the position it is made in.
from_square(p, san) ==
    CASE san = "f3" -> "f2" [] san = "g4" -> "g2" [] san = "Nc3" -> p.wn
      [] san = "Nb1" -> "c3" [] san = "e5" -> "e7" [] san = "Qh4" -> "d8"
      [] san = "Qd8" -> "h4" [] san = "Nc6" -> "b8" [] san = "Nb8" -> "c6"
      [] san = "Nd5" -> "c3"
      [] san \in PawnPushes -> push_from(p, san)
      [] san \in PawnCaptures -> capture_from(p, san)
      [] OTHER -> None

\* Board.is_en_passant: a pawn goes diagonally to the en passant square, which
\* is empty.
is_en_passant(p, san) ==
    /\ san \in PawnCaptures
    /\ p.ep = to_square(san)
    /\ piece_at(p, capture_from(p, san)) \in {"P", "p"}
    /\ piece_at(p, to_square(san)) = None

\* Board.is_capture: the move goes to a man of the other side, or is en passant.
is_capture(p, san) ==
    to_square(san) # None /\ (enemy(p, to_square(san)) \/ is_en_passant(p, san))

\* Whether san is a legal move of position p.  With the queen on h4 the pawn
\* on f2 is pinned; in check, no move of the fragment answers the check.  The
\* engine does not ask for the x of a capture: Nd5 takes what stands on d5.
is_legal(p, san) ==
    CASE san = "f3"  -> p.turn = WHITE /\ ~p.f3 /\ p.bq # "h4"
      [] san = "g4"  -> p.turn = WHITE /\ ~p.g4 /\ ~is_check(p)
      [] san = "Nc3" -> p.turn = WHITE /\ p.wn \in {"b1", "d5"} /\ ~own(p, "c3")
                           /\ ~is_check(p)
      [] san = "Nb1" -> p.turn = WHITE /\ p.wn = "c3" /\ ~is_check(p)
      [] san = "Nd5" -> p.turn = WHITE /\ p.wn = "c3" /\ ~own(p, "d5")
                           /\ ~is_check(p)
      [] san = "e5"  -> p.turn = BLACK /\ ~p.e5
      [] san = "Qh4" -> p.turn = BLACK /\ p.bq = "d8" /\ p.e5
      [] san = "Qd8" -> p.turn = BLACK /\ p.bq = "h4"
      [] san = "Nc6" -> p.turn = BLACK /\ p.bn = "b8" /\ ~own(p, "c6")
      [] san = "Nb8" -> p.turn = BLACK /\ p.bn = "c6"
      [] san \in PawnPushes -> push_from(p, san) # None /\ ~is_check(p)
      [] san \in PawnCaptures ->
            /\ piece_at(p, capture_from(p, san)) = pawn(p.turn)
            /\ enemy(p, to_square(san)) \/ is_en_passant(p, san)
            /\ ~is_check(p)
      [] OTHER -> FALSE

\* Board.is_zeroing: a pawn move or a capture resets the halfmove clock.
is_zeroing(p, san) ==
    \/ san \in PawnSans
    \/ is_capture(p, san)

\* The square of the man a move takes: the square moved to, or en passant the
\* square of the pawn behind it.
taken_square(p, san) ==
    IF is_en_passant(p, san)
    THEN square_name(square(to_square(san)) - forward(p.turn))
    ELSE to_square(san)

\* Board._remove_piece_at: the man on the square, if there is one, leaves the
\* board.
remove_piece_at(p, sq) ==
    [p EXCEPT !.wp = @ \ {sq}, !.bp = @ \ {sq},
              !.wn = IF @ = sq THEN "x" ELSE @,
              !.bn = IF @ = sq THEN "x" ELSE @]

\* Board._set_piece_at: the man of side t that makes the move stands on `to`
\* and no longer on `from`.
set_piece_at(q, t, san, from, to) ==
    CASE san = "f3"  -> [q EXCEPT !.f3 = TRUE]
      [] san = "g4"  -> [q EXCEPT !.g4 = TRUE]
      [] san \in {"Nc3", "Nb1", "Nd5"} -> [q EXCEPT !.wn = to]
      [] san = "e5"  -> [q EXCEPT !.e5 = TRUE]
      [] san \in {"Qh4", "Qd8"} -> [q EXCEPT !.bq = to]
      [] san \in {"Nc6", "Nb8"} -> [q EXCEPT !.bn = to]
      [] san \in PawnCaptures \cup PawnPushes ->
            IF t = WHITE THEN [q EXCEPT !.wp = (@ \ {from}) \cup {to}]
            ELSE [q EXCEPT !.bp = (@ \ {from}) \cup {to}]
      [] OTHER -> q

\* The en passant square after the move: the square a pawn that has made two
\* steps has passed over.
ep_square_after(t, san, from, to) ==
    CASE san = "g4" -> "g3"
      [] san = "e5" -> "e6"
      [] san \in PawnPushes ->
            IF square(to) - square(from) = 2 * forward(t)
            THEN square_name(square(to) - forward(t)) ELSE None
      [] OTHER -> None

\* The position after the move: the man taken leaves the board, the man moved
\* changes square, a pawn that has made two steps leaves the en passant square
\* behind it, the halfmove clock counts the move or starts again, and the
\* turn passes.
apply_move(p, san) ==
    [set_piece_at(remove_piece_at(p, taken_square(p, san)), p.turn, san,
                  from_square(p, san), to_square(san))
        EXCEPT !.turn = other(p.turn),
               !.ep = ep_square_after(p.turn, san, from_square(p, san),
                                      to_square(san)),
               !.halfmove_clock = IF is_zeroing(p, san) THEN 0 ELSE @ + 1]

\* Board.has_legal_en_passant: a pawn of the side to move stands next to the
\* pawn that has just made two steps.
has_legal_en_passant(p) ==
    /\ p.ep # None
    /\ ~is_check(p)
    /\ \E d \in {-1, 1} :
          LET c == square(p.ep) - forward(p.turn) + d
          IN /\ square_rank(c) = square_rank(square(p.ep) - forward(p.turn))
             /\ piece_at(p, square_name(c)) = pawn(p.turn)

\* The position as the engine compares it: without the halfmove clock, and
\* the en passant square counts only if a capture on it is legal.
transposition_key(p) ==
    [p EXCEPT !.halfmove_clock = 0,
              !.ep = IF @ # None /\ has_legal_en_passant(p) THEN @ ELSE None]

\* Board.push: the position is saved on the state stack and the move made.
push(b, san) == [pos |-> apply_move(b.pos, san),
                 move_stack |-> Append(b.move_stack, san),
                 stack |-> Append(b.stack, b.pos)]

\* Board.pop: the last move is taken back.
pop(b) == [pos |-> b.stack[Len(b.stack)],
           move_stack |-> SubSeq(b.move_stack, 1, Len(b.move_stack) - 1),
           stack |-> SubSeq(b.stack, 1, Len(b.stack) - 1)]

\* Board.turn and Board.fullmove_number (it starts at 1 and is incremented
\* after each move of Black).
board_turn(b) == b.pos.turn
fullmove_number(b) == 1 + (Len(b.move_stack) \div 2)

\* Board.halfmove_clock
halfmove_clock(b) == b.pos.halfmove_clock

\* How often position p has occurred, the current position included.
occurrences(b, p) ==
    Cardinality({i \in 1..Len(b.stack) :
                    transposition_key(b.stack[i]) = transposition_key(p)})
    + (IF transposition_key(b.pos) = transposition_key(p) THEN 1 ELSE 0)

\* Board.is_checkmate: Fool's Mate.  f2 is attacked, g3 cannot be blocked, the
\* queen cannot be taken, and the king's other squares are occupied.
is_checkmate(b) == is_check(b.pos) /\ b.pos.g4

\* Board.is_stalemate, Board.is_insufficient_material: in no position of the
\* fragment (each side keeps all its men and has a pawn or king move).
is_stalemate(b) == FALSE
is_insufficient_material(b) == FALSE

\* Board.can_claim_threefold_repetition: among the positions since the last
\* move that cannot be taken back (a pawn move or a capture), the position has
\* occurred three times, or a legal move leads to one that has occurred twice.
can_claim_threefold_repetition(b) ==
    LET n == Len(b.stack)
        since == (n + 1 - halfmove_clock(b)) .. (n + 1)
        keys == [i \in since |->
                    transposition_key(IF i <= n THEN b.stack[i] ELSE b.pos)]
        twice == {keys[i] : i \in {j \in since :
                                      \E k \in since : k # j /\ keys[k] = keys[j]}}
    IN \/ Cardinality({i \in since : keys[i] = keys[n + 1]}) >= 3
       \/ /\ twice # {}
          /\ \E san \in EngineSans :
                /\ is_legal(b.pos, san)
                /\ transposition_key(apply_move(b.pos, san)) \in twice

\* Board.is_fivefold_repetition (a position comes back after four moves that
\* can be taken back at the earliest, so five occurrences take sixteen).
is_fivefold_repetition(b) ==
    halfmove_clock(b) >= 16 /\ occurrences(b, b.pos) >= 5

\* Board.can_claim_fifty_moves and Board.is_seventyfive_moves
can_claim_fifty_moves(b) ==
    \/ halfmove_clock(b) >= 100
    \/ halfmove_clock(b) >= 99
         /\ \E san \in EngineSans : is_legal(b.pos, san) /\ ~is_zeroing(b.pos, san)
is_seventyfive_moves(b) == halfmove_clock(b) >= 150

\* Board.is_game_over(claim_draw=True)
is_game_over(b) ==
    \/ is_seventyfive_moves(b)
    \/ is_insufficient_material(b)
    \/ is_checkmate(b)
    \/ is_stalemate(b)
    \/ is_fivefold_repetition(b)
    \/ can_claim_fifty_moves(b)
    \/ can_claim_threefold_repetition(b)

\* Board.result(claim_draw=True): the mated side is the side to move.
board_result(b) ==
    IF is_checkmate(b) THEN SCORES(other(b.pos.turn))
    ELSE IF is_game_over(b) THEN SCORES("draw")
    ELSE "*"

\* -------------------------------------------------------------------- Game

\* What a call does: the game after it and the exception it raised, if any.
Ok(g) == [game |-> g, raised |-> "none"]
Raise(g, e) == [game |-> g, raised |-> e]

\* Game.__init__ (time_controls an int >= 0 or NoTime)
Game(creator_id, game_id, time_controls) ==
    [id |-> game_id,
     creator |-> creator_id,
     time_controls |-> time_controls,
     remaining_time |-> [s \in Sides |-> time_controls],
     board |-> NewBoard,
     players |-> [s \in Sides |-> None],
     plies |-> 0,
     history |-> <<>>,
     resigned |-> [s \in Sides |-> FALSE],
     draw_offers |-> [s \in Sides |-> [made |-> FALSE, accepted |-> FALSE]]]

\* Game.turn, Game.move_count, Game.free_slots
turn(g) == board_turn(g.board)
move_count(g) == fullmove_number(g.board)
free_slots(g) == Cardinality({s \in Sides : g.players[s] = None})

\* result with the resignations applied last, over the draw and the clocks.
result_resignation_last(g) ==
    LET r0 == board_result(g.board)
        r3 == IF g.draw_offers[WHITE].accepted \/ g.draw_offers[BLACK].accepted
              THEN SCORES("draw") ELSE r0
        r4 == IF g.remaining_time[WHITE] = 0 THEN SCORES(BLACK) ELSE r3
        r5 == IF g.remaining_time[BLACK] = 0 THEN SCORES(WHITE) ELSE r4
        r6 == IF g.remaining_time[WHITE] = 0 /\ g.remaining_time[BLACK] = 0
              THEN SCORES("draw") ELSE r5
        r7 == IF g.resigned[WHITE] THEN SCORES(BLACK) ELSE r6
    IN IF g.resigned[BLACK] THEN SCORES(WHITE) ELSE r7

\* result without its last test, of both clocks at 0.
result_without_both_clocks(g) ==
    LET r0 == board_result(g.board)
        r1 == IF g.resigned[WHITE] THEN SCORES(BLACK) ELSE r0
        r2 == IF g.resigned[BLACK] THEN SCORES(WHITE) ELSE r1
        r3 == IF g.draw_offers[WHITE].accepted \/ g.draw_offers[BLACK].accepted
              THEN SCORES("draw") ELSE r2
        r4 == IF g.remaining_time[WHITE] = 0 THEN SCORES(BLACK) ELSE r3
    IN IF g.remaining_time[BLACK] = 0 THEN SCORES(WHITE) ELSE r4

\* One override of Game.result: if the test holds, the score replaces the
\* result so far.
override(r, test, score) == IF test THEN score ELSE r

\* result without the overrides of the clocks.
result_without_clocks(g) ==
    override(
      override(
        override(board_result(g.board),
                 g.resigned[WHITE], SCORES(BLACK)),
        g.resigned[BLACK], SCORES(WHITE)),
      g.draw_offers[WHITE].accepted \/ g.draw_offers[BLACK].accepted,
      SCORES("draw"))

\* Game.result: the engine's result, then the overrides in the order written
\* (resignation of White, of Black, an accepted draw, the clock of White, of
\* Black, both clocks).
result(g) ==
    override(
      override(
        override(
          override(
            override(
              override(board_result(g.board),
                       g.resigned[WHITE], SCORES(BLACK)),
              g.resigned[BLACK], SCORES(WHITE)),
            g.draw_offers[WHITE].accepted \/ g.draw_offers[BLACK].accepted,
            SCORES("draw")),
          g.remaining_time[WHITE] = 0, SCORES(BLACK)),
        g.remaining_time[BLACK] = 0, SCORES(WHITE)),
      g.remaining_time[WHITE] = 0 /\ g.remaining_time[BLACK] = 0,
      SCORES("draw"))

\* Game.in_progress
in_progress(g) == result(g) = "*"

\* The reason the engine's rules end the game: each test that holds overwrites
\* the reason of those before it.
rules_reason(b) ==
    IF is_fivefold_repetition(b) THEN "Five-fold repetition"
    ELSE IF is_stalemate(b) THEN "Stalemate"
    ELSE IF is_checkmate(b) THEN "Checkmate"
    ELSE IF is_insufficient_material(b) THEN "Insufficient material"
    ELSE IF is_seventyfive_moves(b) THEN "Seventy-five move rule"
    ELSE IF can_claim_fifty_moves(b) THEN "Fifty move rule"
    ELSE IF can_claim_threefold_repetition(b) THEN "Three-fold repetition"
    ELSE "UnboundLocalError"

\* game_over without its test of the clocks.
game_over_without_time(g) ==
    IF is_game_over(g.board)
    THEN [game_over |-> TRUE, reason |-> rules_reason(g.board)]
    ELSE IF g.resigned[WHITE] \/ g.resigned[BLACK]
    THEN [game_over |-> TRUE, reason |-> "Resignation"]
    ELSE IF g.draw_offers[WHITE].accepted \/ g.draw_offers[BLACK].accepted
    THEN [game_over |-> TRUE, reason |-> "Draw by agreement"]
    ELSE [game_over |-> FALSE, reason |-> None]

\* Game.game_over: the first test that holds returns.
game_over(g) ==
    IF is_game_over(g.board)
    THEN [game_over |-> TRUE, reason |-> rules_reason(g.board)]
    ELSE IF g.resigned[WHITE] \/ g.resigned[BLACK]
    THEN [game_over |-> TRUE, reason |-> "Resignation"]
    ELSE IF g.draw_offers[WHITE].accepted \/ g.draw_offers[BLACK].accepted
    THEN [game_over |-> TRUE, reason |-> "Draw by agreement"]
    ELSE IF g.remaining_time[WHITE] = 0 \/ g.remaining_time[BLACK] = 0
    THEN [game_over |-> TRUE, reason |-> "Time"]
    ELSE [game_over |-> FALSE, reason |-> None]

\* _invert that gives back the side it is given.
invert_same(color) == color

\* Game._invert (called with a valid side only)
invert(color) == IF color = WHITE THEN BLACK ELSE WHITE

\* side = None selects the side to move.
side_or_turn(g, side) == IF side # None THEN side ELSE turn(g)

\* decline_draw without its test that the game is in progress.
decline_draw_when_over(g, side0) ==
    LET side == side_or_turn(g, side0) IN
    IF side \notin Sides THEN Raise(g, "ValueError: Invalid side")
    ELSE IF ~g.draw_offers[invert(side)].made THEN Ok(g)
    ELSE IF g.draw_offers[invert(side)].accepted THEN Ok(g)
    ELSE Ok([g EXCEPT !.draw_offers[invert(side)].made = FALSE])

\* decline_draw that withdraws the offer of the side itself.
decline_draw_own(g, side0) ==
    LET side == side_or_turn(g, side0) IN
    IF side \notin Sides THEN Raise(g, "ValueError: Invalid side")
    ELSE IF ~in_progress(g) THEN Ok(g)
    ELSE IF ~g.draw_offers[side].made THEN Ok(g)
    ELSE IF g.draw_offers[side].accepted THEN Ok(g)
    ELSE Ok([g EXCEPT !.draw_offers[side].made = FALSE])

\* Game.decline_draw
decline_draw(g, side0) ==
    LET side == side_or_turn(g, side0) IN
    IF side \notin Sides THEN Raise(g, "ValueError: Invalid side")
    ELSE IF ~in_progress(g) THEN Ok(g)
    ELSE IF ~g.draw_offers[invert(side)].made THEN Ok(g)
    ELSE IF g.draw_offers[invert(side)].accepted THEN Ok(g)
    ELSE Ok([g EXCEPT !.draw_offers[invert(side)].made = FALSE])

\* accept_draw that accepts the offer of the side itself.
accept_draw_own(g, side0) ==
    LET side == side_or_turn(g, side0) IN
    IF side \notin Sides THEN Raise(g, "ValueError: Invalid side")
    ELSE IF ~in_progress(g) THEN Ok(g)
    ELSE IF ~g.draw_offers[side].made THEN Ok(g)
    ELSE Ok([g EXCEPT !.draw_offers[side].accepted = TRUE])

\* accept_draw without its test that the other side has made an offer.
accept_draw_unoffered(g, side0) ==
    LET side == side_or_turn(g, side0) IN
    IF side \notin Sides THEN Raise(g, "ValueError: Invalid side")
    ELSE IF ~in_progress(g) THEN Ok(g)
    ELSE Ok([g EXCEPT !.draw_offers[invert(side)].accepted = TRUE])

\* Game.accept_draw
accept_draw(g, side0) ==
    LET side == side_or_turn(g, side0) IN
    IF side \notin Sides THEN Raise(g, "ValueError: Invalid side")
    ELSE IF ~in_progress(g) THEN Ok(g)
    ELSE IF ~g.draw_offers[invert(side)].made THEN Ok(g)
    ELSE Ok([g EXCEPT !.draw_offers[invert(side)].accepted = TRUE])

\* offer_draw that does not accept the offer the opponent has made.
offer_draw_without_accept(g, side0) ==
    LET side == side_or_turn(g, side0) IN
    IF side \notin Sides THEN Raise(g, "ValueError: Invalid side")
    ELSE IF ~in_progress(g) THEN Ok(g)
    ELSE IF g.draw_offers[side].made THEN Ok(g)
    ELSE Ok([g EXCEPT !.draw_offers[side].made = TRUE])

\* Game.offer_draw
offer_draw(g, side0) ==
    LET side == side_or_turn(g, side0) IN
    IF side \notin Sides THEN Raise(g, "ValueError: Invalid side")
    ELSE IF ~in_progress(g) THEN Ok(g)
    ELSE IF g.draw_offers[side].made THEN Ok(g)
    ELSE LET g1 == IF g.draw_offers[invert(side)].made
                   THEN accept_draw(g, side).game ELSE g
         IN Ok([g1 EXCEPT !.draw_offers[side].made = TRUE])

\* resign that resigns the side to move whatever side is named.
resign_side_to_move(g, side0) ==
    LET side == turn(g) IN
    IF side_or_turn(g, side0) \notin Sides THEN Raise(g, "ValueError: Invalid side")
    ELSE IF ~in_progress(g) THEN Ok(g)
    ELSE IF g.resigned[side] THEN Ok(g)
    ELSE Ok([g EXCEPT !.resigned[side] = TRUE])

\* resign without its test that the game is in progress.
resign_when_over(g, side0) ==
    LET side == side_or_turn(g, side0) IN
    IF side \notin Sides THEN Raise(g, "ValueError: Invalid side")
    ELSE IF g.resigned[side] THEN Ok(g)
    ELSE Ok([g EXCEPT !.resigned[side] = TRUE])

\* Game.resign
resign(g, side0) ==
    LET side == side_or_turn(g, side0) IN
    IF side \notin Sides THEN Raise(g, "ValueError: Invalid side")
    ELSE IF ~in_progress(g) THEN Ok(g)
    ELSE IF g.resigned[side] THEN Ok(g)
    ELSE Ok([g EXCEPT !.resigned[side] = TRUE])

\* time_delta without its test that the game is in progress.
time_delta_when_over(g, delta, side0) ==
    LET side == side_or_turn(g, side0) IN
    IF side \notin Sides THEN Raise(g, "ValueError: Invalid side")
    ELSE IF g.time_controls = NoTime THEN Ok(g)
    ELSE IF g.remaining_time[side] = 0 THEN Ok(g)
    ELSE IF delta < 0 /\ g.remaining_time[side] + delta < 0
    THEN Ok([g EXCEPT !.remaining_time[side] = 0])
    ELSE Ok([g EXCEPT !.remaining_time[side] = @ + delta])

\* time_delta without the reset to 0 of a time that would go below 0.
time_delta_unclamped(g, delta, side0) ==
    LET side == side_or_turn(g, side0) IN
    IF side \notin Sides THEN Raise(g, "ValueError: Invalid side")
    ELSE IF g.time_controls = NoTime THEN Ok(g)
    ELSE IF ~in_progress(g) THEN Ok(g)
    ELSE IF g.remaining_time[side] = 0 THEN Ok(g)
    ELSE Ok([g EXCEPT !.remaining_time[side] = @ + delta])

\* Game.time_delta (delta an int)
time_delta(g, delta, side0) ==
    LET side == side_or_turn(g, side0) IN
    IF side \notin Sides THEN Raise(g, "ValueError: Invalid side")
    ELSE IF g.time_controls = NoTime THEN Ok(g)
    ELSE IF ~in_progress(g) THEN Ok(g)
    ELSE IF g.remaining_time[side] = 0 THEN Ok(g)
    ELSE IF delta < 0 /\ g.remaining_time[side] + delta < 0
    THEN Ok([g EXCEPT !.remaining_time[side] = 0])
    ELSE Ok([g EXCEPT !.remaining_time[side] = @ + delta])

\* add_player without its test of the ID on the other side.
add_player_any_id(g, id_, side) ==
    IF side \notin Sides THEN Raise(g, "ValueError: Invalid side")
    ELSE IF g.players[side] = None THEN Ok([g EXCEPT !.players[side] = id_])
    ELSE Raise(g, "RuntimeError: slot occupied")

\* add_player refusing a game that is over.
add_player_in_progress(g, id_, side) ==
    IF side \notin Sides THEN Raise(g, "ValueError: Invalid side")
    ELSE IF ~in_progress(g) THEN Raise(g, "RuntimeError: game is over")
    ELSE IF g.players[invert(side)] = id_
    THEN Raise(g, "RuntimeError: same ID on other side")
    ELSE IF g.players[side] = None THEN Ok([g EXCEPT !.players[side] = id_])
    ELSE Raise(g, "RuntimeError: slot occupied")

\* Game.add_player (id_ a string)
add_player(g, id_, side) ==
    IF side \notin Sides THEN Raise(g, "ValueError: Invalid side")
    ELSE IF g.players[invert(side)] = id_
    THEN Raise(g, "RuntimeError: same ID on other side")
    ELSE IF g.players[side] = None THEN Ok([g EXCEPT !.players[side] = id_])
    ELSE Raise(g, "RuntimeError: slot occupied")

\* The description with the en passant square looked for one rank ahead of
\* the square moved to.
move_description_up(b0, ply_count, san) ==
    LET p == b0.pos
        capture == is_capture(p, san)
        en_passant == is_en_passant(p, san)
        down == IF board_turn(b0) = WHITE THEN 8 ELSE -8
    IN [san |-> san,
        side |-> board_turn(b0),
        ply_count |-> ply_count,
        move_count |-> fullmove_number(b0),
        piece |-> lower(piece_at(p, from_square(p, san))),
        from |-> from_square(p, san),
        to |-> to_square(san),
        promotion |-> [promotion |-> FALSE, piece |-> None],
        capture |-> [capture |-> capture,
                     piece |-> IF ~capture THEN None
                               ELSE IF en_passant THEN "p"
                               ELSE lower(piece_at(p, to_square(san)))],
        castle |-> [castle |-> FALSE, side |-> None],
        en_passant |-> [en_passant |-> en_passant,
                        square |-> IF capture /\ en_passant
                                   THEN square_name(square(p.ep) + down)
                                   ELSE None]]

\* The description of the move san made on board b0 as the ply numbered
\* ply_count.  No move of the fragment promotes or castles.  For a capture the
\* piece taken is the one on the square moved to, except en passant: a pawn,
\* on the square one rank behind the en passant square.
move_description(b0, ply_count, san) ==
    LET p == b0.pos
        capture == is_capture(p, san)
        en_passant == is_en_passant(p, san)
        down == IF board_turn(b0) = WHITE THEN -8 ELSE 8
    IN [san |-> san,
        side |-> board_turn(b0),
        ply_count |-> ply_count,
        move_count |-> fullmove_number(b0),
        piece |-> lower(piece_at(p, from_square(p, san))),
        from |-> from_square(p, san),
        to |-> to_square(san),
        promotion |-> [promotion |-> FALSE, piece |-> None],
        capture |-> [capture |-> capture,
                     piece |-> IF ~capture THEN None
                               ELSE IF en_passant THEN "p"
                               ELSE lower(piece_at(p, to_square(san)))],
        castle |-> [castle |-> FALSE, side |-> None],
        en_passant |-> [en_passant |-> en_passant,
                        square |-> IF capture /\ en_passant
                                   THEN square_name(square(p.ep) + down)
                                   ELSE None]]

\* _construct_move_description numbering the plies from 0.
describe_ply_from_zero(g, san) ==
    move_description(pop(g.board), g.plies - 1, san)

\* _construct_move_description describing the move on the board after it (the
\* move is not popped).
describe_without_pop(g, san) ==
    move_description(g.board, g.plies, san)

\* Game._construct_move_description, called right after the move was pushed:
\* the move is popped, described on the board before it, and pushed again.
construct_move_description(g, san) ==
    move_description(pop(g.board), g.plies, san)

\* The draw offers of both sides are declined (the loop of Game.move).
clear_draw_offers(g) == decline_draw(decline_draw(g, WHITE).game, BLACK).game

\* move counting the ply before the engine has accepted the move.
move_counting_first(g, san) ==
    IF ~in_progress(g) THEN Raise(g, "RuntimeError: ended game")
    ELSE IF g.players[turn(g)] = None THEN Raise(g, "RuntimeError: No player found")
    ELSE LET g0 == [g EXCEPT !.plies = @ + 1] IN
         IF ~is_legal(g.board.pos, san) THEN Raise(g0, "ValueError: invalid san")
         ELSE LET g1 == [g0 EXCEPT !.board = push(g.board, san)]
                  g3 == clear_draw_offers(g1)
                  detailed_move == construct_move_description(g3, san)
              IN Ok([g3 EXCEPT !.history = Append(@, detailed_move)])

\* move looking for the player before it tests that the game is in progress.
move_player_first(g, san) ==
    IF g.players[turn(g)] = None THEN Raise(g, "RuntimeError: No player found")
    ELSE IF ~in_progress(g) THEN Raise(g, "RuntimeError: ended game")
    ELSE IF ~is_legal(g.board.pos, san) THEN Raise(g, "ValueError: invalid san")
    ELSE LET g1 == [g EXCEPT !.board = push(g.board, san)]
             g2 == [g1 EXCEPT !.plies = @ + 1]
             g3 == clear_draw_offers(g2)
             detailed_move == construct_move_description(g3, san)
         IN Ok([g3 EXCEPT !.history = Append(@, detailed_move)])

\* The end of Game.move: the description of the move made is appended to the
\* history of the game g3 it was made in.
record_move(g3, san) ==
    Ok([g3 EXCEPT !.history = Append(@, construct_move_description(g3, san))])

\* Game.move: the engine makes the move, the ply is counted, the draw offers
\* are cleared and the move is described.
move(g, san) ==
    IF ~in_progress(g) THEN Raise(g, "RuntimeError: ended game")
    ELSE IF g.players[turn(g)] = None THEN Raise(g, "RuntimeError: No player found")
    ELSE IF ~is_legal(g.board.pos, san) THEN Raise(g, "ValueError: invalid san")
    ELSE record_move(
            clear_draw_offers([g EXCEPT !.board = push(g.board, san),
                                        !.plies = @ + 1]),
            san)

\* Game.to_dict: the snapshot stored and sent.  pgn is rendered from the move
\* stack (here: the SAN texts in order, without move numbers) and fen from the
\* position, the halfmove clock and the fullmove number.
to_dict(g) ==
    [id |-> g.id,
     creator |-> g.creator,
     players |-> g.players,
     free_slots |-> free_slots(g),
     time_controls |-> g.time_controls,
     remaining_time |-> g.remaining_time,
     resigned |-> g.resigned,
     draw_offers |-> g.draw_offers,
     in_progress |-> in_progress(g),
     result |-> result(g),
     game_over |-> game_over(g),
     turn |-> turn(g),
     ply_count |-> g.plies,
     move_count |-> move_count(g),
     pgn |-> g.board.move_stack,
     history |-> g.history,
     fen |-> [pos |-> transposition_key(g.board.pos), halfmove_clock |-> halfmove_clock(g.board),
              fullmove_number |-> fullmove_number(g.board)]]

\* The loop of Game.from_dict: the SAN of each history entry is pushed on a new
\* board; push_san raises on a SAN that is not legal where it comes.
RECURSIVE replay(_, _)
replay(b, h) ==
    IF h = <<>> THEN [ok |-> TRUE, board |-> b]
    ELSE IF ~is_legal(b.pos, h[1].san) THEN [ok |-> FALSE, board |-> b]
    ELSE replay(push(b, h[1].san), Tail(h))

\* from_dict that does not load the draw offers.
from_dict_without_offers(d) ==
    LET g0 == Game(d.creator, d.id, NoTime)
        r == replay(NewBoard, d.history)
        g1 == [g0 EXCEPT !.players = d.players,
                         !.time_controls = d.time_controls,
                         !.board = r.board,
                         !.history = d.history,
                         !.remaining_time = d.remaining_time,
                         !.plies = d.ply_count,
                         !.resigned = d.resigned]
    IN IF r.ok THEN Ok(g1) ELSE Raise(g0, "ValueError: invalid san")

\* Game.from_dict (d has the required keys): a new game of the snapshot's
\* creator and id, the history replayed on its board, the other attributes
\* taken from the snapshot as they are.
from_dict(d) ==
    LET g0 == Game(d.creator, d.id, NoTime)
        r == replay(NewBoard, d.history)
        g1 == [g0 EXCEPT !.players = d.players,
                         !.time_controls = d.time_controls,
                         !.board = r.board,
                         !.history = d.history,
                         !.remaining_time = d.remaining_time,
                         !.plies = d.ply_count,
                         !.resigned = d.resigned,
                         !.draw_offers = d.draw_offers]
    IN IF r.ok THEN Ok(g1) ELSE Raise(g0, "ValueError: invalid san")

\* ------------------------------------------------ Game under its operations

\* The inputs: SAN texts (one of them no move at all), player ids, side
\* arguments (None: the side to move; "z": no side), clock deltas and the time
\* controls a game is created with.
Sans == {"f3", "g4", "Nc3", "Nb1", "e5", "Qh4", "Nc6", "Nb8", "e9"}
Ids == {"1", "2"}
SideArgs == {None, WHITE, BLACK}
Deltas == {-2, -1, 1}
TimeControls == {NoTime, 0, 1}

\* game: the Game object the operations act on.
\* doc: the snapshot last exported from it (NoDoc: none yet).
\* games: the games collection of the database, a snapshot for each game id.
\* reqs: the requests the server is handling, one for each of its workers.
\* answers: the requests answered, with the status of the answer.
\* nreq: the number of requests received.
\* controllers: the controllers collection, a registration for each board id.
\* now: the clock of the server, time.time().
VARIABLES game, doc, games, counts, reqs, answers, nreq, controllers, now
vars == <<game, doc, games, counts, reqs, answers, nreq, controllers, now>>

NoDoc == [id |-> None]

\* The counts collection before any game is created: counts/games.
GAMES_COLLECTION == "games"
NoCounts == [games |-> [count |-> 0]]

\* The workers of the server and the ids of the games collection.
Slots == 1 .. MaxSlots
GameIds == {"1"}
BoardIds == {"b1"}

\* A request: where its handler is (pc), the route (kind), the form (user,
\* arg), the Game object the handler built (g) and what it did with it (the
\* side it acted for, the ply count after it, whether it changed the game).
NoRequest ==
    [pc |-> "idle", kind |-> None, user |-> None, arg |-> None, g |-> NoDoc,
     side |-> None, ply |-> 0, changed |-> FALSE, trace |-> <<>>]

\* No server: a Game object on its own.
NoServer ==
    /\ games = [id \in GameIds |-> NoDoc]
    /\ reqs = [s \in Slots |-> NoRequest]
    /\ answers = {}
    /\ nreq = 0
    /\ controllers = [b \in BoardIds |-> NoDoc]
    /\ now = 0
    /\ counts = NoCounts

\* What the operations of a Game object leave alone.
others == <<doc, games, counts, reqs, answers, nreq, controllers, now>>

Init ==
    /\ \E tc \in TimeControls : game = Game("1", "g1", tc)
    /\ doc = NoDoc
    /\ NoServer

Move == \E san \in Sans :
    /\ game.plies < MaxPly
    /\ game' = move(game, san).game
    /\ UNCHANGED others

AddPlayer == \E id_ \in Ids, side \in Sides \cup {"z"} :
    /\ game' = add_player(game, id_, side).game
    /\ UNCHANGED others

TimeDelta == \E delta \in Deltas, side \in SideArgs :
    /\ \A s \in Sides : game.remaining_time[s] + delta <= MaxTime
    /\ game' = time_delta(game, delta, side).game
    /\ UNCHANGED others

Resign == \E side \in SideArgs :
    /\ game' = resign(game, side).game
    /\ UNCHANGED others

OfferDraw == \E side \in SideArgs :
    /\ game' = offer_draw(game, side).game
    /\ UNCHANGED others

AcceptDraw == \E side \in SideArgs :
    /\ game' = accept_draw(game, side).game
    /\ UNCHANGED others

DeclineDraw == \E side \in SideArgs :
    /\ game' = decline_draw(game, side).game
    /\ UNCHANGED others

Next == Move \/ AddPlayer \/ TimeDelta \/ Resign \/ OfferDraw \/ AcceptDraw \/ DeclineDraw

Spec == Init /\ [][Next]_vars

\* ------------------------------------------------------------------ claims

\* C1: after any sequence of operations, len(history) equals ply_count and the
\* i-th history entry (1-based) has ply_count i.
C1_HistoryMatchesPlyCount ==
    /\ Len(game.history) = game.plies
    /\ \A i \in 1..Len(game.history) : game.history[i].ply_count = i

\* Four moves were made, and calls that failed or did nothing came after the
\* last one (the game is over by checkmate).
C1_Witness == game.plies = 4 /\ is_checkmate(game.board)

\* C2: once the game is over it stays over, and the result stays what it was.
C2_TerminatedIsAbsorbing ==
    [][~in_progress(game) =>
          ~in_progress(game') /\ result(game') = result(game)]_vars

\* A game over from its creation on which two calls (add_player) have acted.
C2_Witness == game.time_controls = 0 /\ free_slots(game) = 0

\* The fields of C3 and C4: position and moves, history, ply_count,
\* remaining_time, resigned, draw_offers.
SameMatch(g, h) ==
    /\ g.board = h.board
    /\ g.history = h.history
    /\ g.plies = h.plies
    /\ g.remaining_time = h.remaining_time
    /\ g.resigned = h.resigned
    /\ g.draw_offers = h.draw_offers

\* C3: on a game that is over, move raises and resign, offer_draw, accept_draw,
\* decline_draw and time_delta return silently, all leaving the match as it was.
C3_OverGameIsFrozen ==
    ~in_progress(game) =>
        /\ \A san \in Sans :
              /\ move(game, san).raised # "none"
              /\ SameMatch(move(game, san).game, game)
        /\ \A side \in SideArgs :
              /\ resign(game, side).raised = "none"
              /\ SameMatch(resign(game, side).game, game)
              /\ offer_draw(game, side).raised = "none"
              /\ SameMatch(offer_draw(game, side).game, game)
              /\ accept_draw(game, side).raised = "none"
              /\ SameMatch(accept_draw(game, side).game, game)
              /\ decline_draw(game, side).raised = "none"
              /\ SameMatch(decline_draw(game, side).game, game)
              /\ \A delta \in Deltas :
                    /\ time_delta(game, delta, side).raised = "none"
                    /\ SameMatch(time_delta(game, delta, side).game, game)

\* A timed game ended by a resignation while a draw offer was pending: there
\* is an offer to accept or decline and a clock to run.
C3_Witness ==
    /\ game.resigned[BLACK]
    /\ game.draw_offers[WHITE].made
    /\ game.remaining_time[WHITE] = 1
    /\ game.plies > 0

\* C4: a move call that fails leaves the match as it was.
C4_FailedMoveChangesNothing ==
    \A san \in Sans :
        move(game, san).raised # "none" => move(game, san).game = game

\* A game in progress with moves made, players on both sides and an offer
\* pending, in which the engine rejects a move.
C4_Witness ==
    /\ in_progress(game)
    /\ game.plies = 3
    /\ game.draw_offers[WHITE].made
    /\ game.players[turn(game)] # None
    /\ move(game, "Nb8").raised = "ValueError: invalid san"

\* C5: every accepted move leaves both sides' made flags false, also a move
\* that ends the game.
C5_AcceptedMoveClearsOffers ==
    [][game'.plies > game.plies =>
          \A s \in Sides : ~game'.draw_offers[s].made]_vars

\* C9: the sides of the history entries alternate starting with WHITE, and
\* move_count starts at 1 and grows by one after each BLACK move only.
C9_SidesAlternateMoveCountGrows ==
    LET h == game.history IN
    /\ Len(h) > 0 => h[1].side = WHITE /\ h[1].move_count = 1
    /\ \A i \in 1..(Len(h) - 1) :
          /\ h[i + 1].side # h[i].side
          /\ h[i + 1].move_count =
                h[i].move_count + (IF h[i].side = BLACK THEN 1 ELSE 0)

\* Both sides have moved twice.
C9_Witness == Len(game.history) >= 4 /\ game.history[4].move_count = 2

Max(a, b) == IF a > b THEN a ELSE b

\* C10: time_delta does nothing if the game is untimed, over, or the side has
\* no time left; otherwise the side's time becomes time + delta, or 0 if that
\* is negative.  The other side's time is untouched and no clock is negative.
C10_TimeDelta ==
    /\ game.time_controls # NoTime => \A s \in Sides : game.remaining_time[s] >= 0
    /\ \A delta \in Deltas, side0 \in SideArgs :
          LET side == IF side0 = None THEN turn(game) ELSE side0
              r == time_delta(game, delta, side0)
              t == game.remaining_time[side]
          IN /\ r.raised = "none"
             /\ IF game.time_controls = NoTime \/ ~in_progress(game) \/ t = 0
                THEN r.game = game
                ELSE r.game = [game EXCEPT !.remaining_time[side] = Max(0, t + delta)]

\* White's clock has run out and Black's has been raised.
C10_Witness ==
    /\ game.time_controls = 1
    /\ game.remaining_time[WHITE] = 0
    /\ game.remaining_time[BLACK] = 2

\* ------------------------------------- result and game_over of any snapshot

\* The game that results from playing the SAN texts in order, both sides
\* having a player.
RECURSIVE played(_)
played(sans) ==
    IF sans = <<>>
    THEN add_player(add_player(Game("1", "g1", NoTime), "1", WHITE).game, "2", BLACK).game
    ELSE move(played(SubSeq(sans, 1, Len(sans) - 1)), sans[Len(sans)]).game

\* The move lists of the snapshots: no move, a game under way, Fool's Mate, and
\* the knights going out and back until the repetition can be claimed.
SnapshotLines ==
    {<<>>, <<"f3", "e5">>, <<"f3", "e5", "g4", "Qh4">>,
     <<"Nc3", "Nc6", "Nb1", "Nb8", "Nc3", "Nc6", "Nb1">>}
Clocks == {NoTime, 0, 1}

\* Any snapshot handed to from_dict: a move list with any resignations, draw
\* offers and clocks.
InitDerive ==
    /\ \E line \in SnapshotLines,
          res \in [Sides -> BOOLEAN],
          offers \in [Sides -> [made : BOOLEAN, accepted : BOOLEAN]],
          rt \in [Sides -> Clocks] :
          game = from_dict([to_dict(played(line)) EXCEPT
                               !.resigned = res,
                               !.draw_offers = offers,
                               !.remaining_time = rt]).game
    /\ doc = NoDoc
    /\ NoServer

\* to_dict is called on the game: result and game_over are derived.
Export ==
    /\ doc' = to_dict(game)
    /\ UNCHANGED <<game, games, reqs, answers, nreq, controllers, now, counts>>

NextDerive == Export

SpecDerive == InitDerive /\ [][NextDerive]_vars

Exported == doc.id # None
AnyAccepted(g) == g.draw_offers[WHITE].accepted \/ g.draw_offers[BLACK].accepted
AnyResigned(g) == g.resigned[WHITE] \/ g.resigned[BLACK]
AnyClockZero(g) == g.remaining_time[WHITE] = 0 \/ g.remaining_time[BLACK] = 0

\* The result by priority, the highest first: both clocks 0, BLACK's clock 0,
\* WHITE's clock 0, an accepted draw, BLACK resigned, WHITE resigned, the
\* engine's result.
ResultByPriority(g) ==
    IF g.remaining_time[WHITE] = 0 /\ g.remaining_time[BLACK] = 0 THEN "1/2-1/2"
    ELSE IF g.remaining_time[BLACK] = 0 THEN "1-0"
    ELSE IF g.remaining_time[WHITE] = 0 THEN "0-1"
    ELSE IF AnyAccepted(g) THEN "1/2-1/2"
    ELSE IF g.resigned[BLACK] THEN "1-0"
    ELSE IF g.resigned[WHITE] THEN "0-1"
    ELSE board_result(g.board)

\* C6: for every combination of engine result, resignations, accepted draws and
\* clocks, result is the outcome of the overrides applied in order, each later
\* one overriding the earlier; clocks of None trigger no clock rule.
C6_ResultByPriority ==
    Exported =>
        /\ doc.result = ResultByPriority(game)
        /\ doc.in_progress = (doc.result = "*")
        /\ (\A s \in Sides : game.remaining_time[s] = NoTime) =>
              doc.result = (IF AnyAccepted(game) THEN "1/2-1/2"
                            ELSE IF game.resigned[BLACK] THEN "1-0"
                            ELSE IF game.resigned[WHITE] THEN "0-1"
                            ELSE board_result(game.board))

\* Every override holds at once on a checkmate: WHITE's clock decides.
C6_Witness ==
    /\ Exported
    /\ is_checkmate(game.board)
    /\ game.resigned[WHITE] /\ game.resigned[BLACK]
    /\ AnyAccepted(game)
    /\ game.remaining_time[WHITE] = 0 /\ game.remaining_time[BLACK] = 1
    /\ doc.result = "0-1"

\* C7: game_over reports 'Time' whenever a clock is 0, whatever else holds;
\* 'Draw by agreement' over 'Resignation'; 'Resignation' over a reason of the
\* rules.
C7_TimeOutranksEveryReason ==
    Exported =>
        /\ AnyClockZero(game) => doc.game_over.reason = "Time"
        /\ ~AnyClockZero(game) /\ AnyAccepted(game) =>
              doc.game_over.reason = "Draw by agreement"
        /\ ~AnyClockZero(game) /\ ~AnyAccepted(game) /\ AnyResigned(game) =>
              doc.game_over.reason = "Resignation"

\* ------------------------------------------------------------------ server

\* The routes: a request is validated by its schema against the stored
\* snapshot, then the handler reads the snapshot again, builds a Game from it,
\* calls the operation, writes the snapshot back, emits and answers.  Nothing
\* holds the snapshot between a handler's read and its write.

OPEN_SLOT == "OPEN"
AI == "AI"
REQUEST_OK == "OK"
BAD_REQUEST == "BAD_REQUEST"
INTERNAL_SERVER_ERROR == "INTERNAL_SERVER_ERROR"

\* The documents of the users collection.
Users == Ids

\* What the requests carry: the moves, the responses to an offer, the sides.
ServerSans == {"f3", "e5", "e9", "cxd5"}
Responses == {"true", "false"}
JoinSides == {None, WHITE, BLACK}

\* Game.from_create_game_schema (input_dict validated by CreateGameInput)
from_create_game_schema(input_dict, game_id) ==
    LET g == Game(input_dict.creator_id, game_id, input_dict.time_per_player)
        g1 == IF input_dict.player1_id \notin {OPEN_SLOT, AI}
              THEN add_player(g, input_dict.player1_id, WHITE).game ELSE g
    IN IF input_dict.player2_id \notin {OPEN_SLOT, AI}
       THEN add_player(g1, input_dict.player2_id, BLACK).game ELSE g1

\* game_ref.exists
exists(d) == d # NoDoc

\* data['user_id'] in game.players.values()
is_player(g, user_id) == \E s \in Sides : g.players[s] = user_id

\* {player: side for side, player in game.players.items()}[user_id]: the side
\* of the user ('b' is the later item).
side_of(g, user_id) == IF g.players[BLACK] = user_id THEN BLACK ELSE WHITE

\* MakeMoveInput.validate_move: the error of the request, None without one.
validate_move(d, data) ==
    IF ~exists(d) THEN "Game doesn't exist!"
    ELSE LET g == from_dict(d).game IN
         IF data.user \notin {OPEN_SLOT, AI} /\ data.user \notin Users
         THEN "User doesn't exist!"
         ELSE IF ~is_player(g, data.user) THEN "User is not a player in this game."
         ELSE IF data.user # g.players[turn(g)]
         THEN "User cannot move when it is not their turn."
         ELSE IF ~in_progress(g) THEN "Game is over."
         ELSE IF move(g, data.arg).raised # "none" THEN "Invalid move in current context."
         ELSE None

\* DrawOfferInput.validate_draw_offer
validate_draw_offer(d, data) ==
    IF ~exists(d) THEN "Game doesn't exist!"
    ELSE IF data.user \notin Users THEN "User doesn't exist!"
    ELSE IF ~is_player(from_dict(d).game, data.user)
    THEN "User is not a player in this game."
    ELSE None

\* RespondOfferInput.validate_offer_response
validate_offer_response(d, data) ==
    IF ~exists(d) THEN "Game doesn't exist!"
    ELSE IF data.user \notin Users THEN "User doesn't exist!"
    ELSE IF ~is_player(from_dict(d).game, data.user)
    THEN "User is not a player in this game."
    ELSE None

\* ResignInput: the game exists, the user exists and is a player of the game.
validate_resign(d, data) ==
    IF ~exists(d) THEN "Game doesn't exist!"
    ELSE IF data.user \notin Users THEN "User doesn't exist!"
    ELSE IF ~is_player(from_dict(d).game, data.user)
    THEN "User is not a player in this game."
    ELSE None

\* JoinGameInput: game_exists, player_exists, validate_side (of a side given)
validate_join(d, data) ==
    IF ~exists(d) THEN "Game doesn't exist!"
    ELSE IF data.user \notin Users THEN "User doesn't exist!"
    ELSE IF data.arg # None /\ data.arg \notin Sides
    THEN "Expected side to be one of w, b."
    ELSE None

\* join_game: the side joined when the request names none ("" if none is free)
join_side(g, side) ==
    IF side # None THEN side
    ELSE IF g.players[WHITE] = None THEN WHITE
    ELSE IF g.players[BLACK] = None THEN BLACK
    ELSE ""

\* The answer to a request.
Answer(r, status) ==
    [status |-> status, kind |-> r.kind, user |-> r.user, arg |-> r.arg,
     side |-> r.side, ply |-> r.ply, changed |-> r.changed, trace |-> r.trace]

\* An idle slot takes a request of a route: the schema validates it against
\* the stored snapshot; a request with an error is answered 400 by abort.
Receive(s, kind, user, arg, error) ==
    /\ reqs[s].pc = "idle"
    /\ nreq < MaxRequests
    /\ nreq' = nreq + 1
    /\ LET r == [NoRequest EXCEPT !.kind = kind, !.user = user, !.arg = arg] IN
       IF error # None
       THEN /\ answers' = answers \cup {Answer(r, BAD_REQUEST)}
            /\ UNCHANGED reqs
       ELSE /\ reqs' = [reqs EXCEPT ![s] = [r EXCEPT !.pc = "validated"]]
            /\ UNCHANGED answers
    /\ UNCHANGED <<games, game, doc, controllers, now, counts>>

\* POST /makemove: MakeMoveInput(db).validate(request.form)
MakeMoveRequest(s) == \E id \in GameIds, user \in Users, san \in ServerSans :
    Receive(s, "makemove", user, san,
            validate_move(games[id], [user |-> user, arg |-> san]))

\* POST /resign: ResignInput(db).validate(request.form)
ResignRequest(s) == \E id \in GameIds, user \in Users :
    Receive(s, "resign", user, None,
            validate_resign(games[id], [user |-> user, arg |-> None]))

\* POST /drawoffer: DrawOfferInput(db).validate(request.form)
DrawOfferRequest(s) == \E id \in GameIds, user \in Users :
    Receive(s, "drawoffer", user, None,
            validate_draw_offer(games[id], [user |-> user, arg |-> None]))

\* POST /respondoffer: RespondOfferInput(db).validate(request.form)
RespondOfferRequest(s) == \E id \in GameIds, user \in Users, response \in Responses :
    Receive(s, "respondoffer", user, response,
            validate_offer_response(games[id], [user |-> user, arg |-> response]))

\* POST /joingame: JoinGameInput(db).validate(request.form)
JoinGameRequest(s) == \E id \in GameIds, user \in Users, side \in JoinSides :
    Receive(s, "joingame", user, side,
            validate_join(games[id], [user |-> user, arg |-> side]))

\* Game.from_dict(game_ref.get().to_dict())
Load(s) == \E id \in GameIds :
    /\ reqs[s].pc = "validated"
    /\ reqs' = [reqs EXCEPT ![s].pc = "loaded", ![s].g = from_dict(games[id]).game]
    /\ UNCHANGED <<games, answers, nreq, game, doc, controllers, now, counts>>

\* What a handler does with the Game object it built: the call of the
\* operation, [game, raised] as the operation returns it.
operate(r) ==
    LET g == r.g IN
    CASE r.kind = "makemove" -> move(g, r.arg)
      [] r.kind = "resign" -> resign(g, side_of(g, r.user))
      [] r.kind = "drawoffer" -> offer_draw(g, side_of(g, r.user))
      [] r.kind = "respondoffer" ->
            IF r.arg = "true" THEN accept_draw(g, side_of(g, r.user))
            ELSE decline_draw(g, side_of(g, r.user))
      [] r.kind = "joingame" ->
            IF join_side(g, r.arg) = "" THEN Raise(g, "No free side to join")
            ELSE add_player(g, r.user, join_side(g, r.arg))

\* The side a request acted for.
acted_side(r) ==
    IF r.kind = "joingame" THEN join_side(r.g, r.arg)
    ELSE IF r.kind = "makemove" THEN turn(r.g)
    ELSE side_of(r.g, r.user)

\* The operation is called on the Game object and game_ref.set writes its
\* to_dict.  An exception of add_player is answered 400 by abort; an exception
\* of game.move is not caught: the request ends with a 500.
Write(s) == \E id \in GameIds :
    /\ reqs[s].pc = "loaded"
    /\ LET r == reqs[s]
           out == operate(r)
           done == [r EXCEPT !.pc = "written", !.g = out.game,
                             !.side = acted_side(r), !.ply = out.game.plies,
                             !.changed = (out.game # r.g),
                             !.trace = Append(@, "set")]
       IN IF out.raised # "none"
          THEN /\ answers' = answers \cup
                     {Answer(r, IF r.kind = "joingame" THEN BAD_REQUEST
                                ELSE INTERNAL_SERVER_ERROR)}
               /\ reqs' = [reqs EXCEPT ![s] = NoRequest]
               /\ UNCHANGED games
          ELSE /\ games' = [games EXCEPT ![id] = to_dict(out.game)]
               /\ reqs' = [reqs EXCEPT ![s] = done]
               /\ UNCHANGED answers
    /\ UNCHANGED <<nreq, game, doc, controllers, now, counts>>

\* The event a handler broadcasts to the room of the game (join_game: none).
emitted_event(kind) ==
    CASE kind = "makemove" -> "move"
      [] kind = "drawoffer" -> "drawOffer"
      [] kind = "respondoffer" -> "drawAnswer"
      [] kind = "resign" -> "forfeit"
      [] OTHER -> None

\* What a handler does after game_ref.set: the emit, if any, then the return.
emit_and_return(r) ==
    IF emitted_event(r.kind) = None THEN [r EXCEPT !.trace = Append(@, "return")]
    ELSE [r EXCEPT !.trace = @ \o <<emitted_event(r.kind), "return">>]

\* A handler that emits and returns without waiting for game_ref.set.
RespondBeforeSet(s) ==
    /\ reqs[s].pc \in {"loaded", "written"}
    /\ answers' = answers \cup {Answer(emit_and_return(reqs[s]), REQUEST_OK)}
    /\ reqs' = [reqs EXCEPT ![s] = NoRequest]
    /\ UNCHANGED <<games, nreq, game, doc, controllers, now, counts>>

\* socketio.emit and return jsonify(game_dict) (join_game: return
\* get_game(game_id)): the request is answered as successful.
Respond(s) ==
    /\ reqs[s].pc = "written"
    /\ answers' = answers \cup {Answer(emit_and_return(reqs[s]), REQUEST_OK)}
    /\ reqs' = [reqs EXCEPT ![s] = NoRequest]
    /\ UNCHANGED <<games, nreq, game, doc, controllers, now, counts>>

\* A game created by POST /creategame, and no request.
InitServer ==
    /\ \E player2_id \in {OPEN_SLOT, "2"} :
          games = [id \in GameIds |->
                     to_dict(from_create_game_schema(
                         [creator_id |-> "1", player1_id |-> "1",
                          player2_id |-> player2_id, time_per_player |-> 1], id))]
    /\ reqs = [s \in Slots |-> NoRequest]
    /\ answers = {}
    /\ nreq = 0
    /\ game = Game("1", "1", NoTime)
    /\ doc = NoDoc
    /\ controllers = [b \in BoardIds |-> NoDoc]
    /\ now = 0
    /\ counts = NoCounts

NextServer == \E s \in Slots :
    \/ MakeMoveRequest(s) \/ ResignRequest(s) \/ DrawOfferRequest(s)
    \/ RespondOfferRequest(s) \/ JoinGameRequest(s)
    \/ Load(s) \/ Write(s) \/ Respond(s)

SpecServer == InitServer /\ [][NextServer]_vars

\* What a request answered as successful did to the game is in the snapshot d.
reflected(a, d) ==
    CASE a.kind = "makemove" ->
            /\ d.ply_count >= a.ply
            /\ d.history[a.ply].san = a.arg
      [] a.kind = "resign" -> a.changed => d.resigned[a.side]
      [] a.kind = "joingame" -> d.players[a.side] = a.user
      [] a.kind = "respondoffer" ->
            (a.arg = "true" /\ a.changed) => d.draw_offers[invert(a.side)].accepted
      [] OTHER -> TRUE

\* C8: the mutating requests on one game id exclude one another, so that the
\* snapshot stored afterwards has the effect of every request answered as
\* successful: the move it made, the resignation, the player joined, the draw
\* accepted.
C8_NoSuccessfulRequestLost ==
    \A id \in GameIds : \A a \in answers :
        a.status = REQUEST_OK => reflected(a, games[id])

\* ------------------------------------------------- the draw offer handshake

\* C11: offer_draw(side) does nothing if the game is over or side has already
\* made an offer; if the opponent has made an offer it sets the opponent's
\* accepted and side's made; otherwise it sets side's made and nothing else.
C11_OfferDraw ==
    \A side \in Sides :
        LET r == offer_draw(game, side)
            opp == invert(side)
        IN /\ r.raised = "none"
           /\ IF ~in_progress(game) \/ game.draw_offers[side].made
              THEN r.game = game
              ELSE IF game.draw_offers[opp].made
              THEN r.game = [game EXCEPT !.draw_offers[opp].accepted = TRUE,
                                         !.draw_offers[side].made = TRUE]
              ELSE r.game = [game EXCEPT !.draw_offers[side].made = TRUE]

\* Black has offered after White: White's offer is accepted, Black's is not.
C11_Witness ==
    /\ game.draw_offers[WHITE].made /\ game.draw_offers[WHITE].accepted
    /\ game.draw_offers[BLACK].made /\ ~game.draw_offers[BLACK].accepted

\* ------------------------------------------------------------- controllers

\* schemas/controller.py: seconds a registration stays fresh without a poll.
TIMEOUT == 60

\* What the controller requests carry.  A poll may carry an error (has_error);
\* stacked: whether the build's marshmallow applies validate_non_negative to
\* both fields its two stacked @validates name, or to ply_count only.
BoardVersions == {"v1", "v2"}
PollPlies == -1 .. MaxCtlPly + 1
PollErrors == -1 .. 2
RegisterForms == [board_id : BoardIds, board_version : BoardVersions]
PollForms ==
    [board_id : BoardIds, ply_count : PollPlies, has_error : BOOLEAN,
     error : PollErrors]
Delays == {30}

\* The moves made on the game a controller follows.
CtlSans == {"f3", "e5", "g4", "Qh4"}

\* validate_controller_not_registered that lets a board register again after
\* half of TIMEOUT.
validate_controller_not_registered_half(cs, value, t) ==
    IF ~exists(cs[value]) THEN None
    ELSE IF 2 * (t - cs[value].last_seen) < TIMEOUT
    THEN "Controller already registered"
    ELSE None

\* ControllerRegisterInput.validate_controller_not_registered
validate_controller_not_registered(cs, value, t) ==
    IF ~exists(cs[value]) THEN None
    ELSE IF t - cs[value].last_seen < TIMEOUT
    THEN "Controller already registered"
    ELSE None

\* register_controller that forgets the registration it finds.
register_controller_anew(cs, form, t) ==
    IF validate_controller_not_registered(cs, form.board_id, t) # None
    THEN [controllers |-> cs, status |-> BAD_REQUEST]
    ELSE [controllers |-> [cs EXCEPT ![form.board_id] =
                [game_id |-> None, last_ply_count |-> 0,
                 board_id |-> form.board_id,
                 board_version |-> form.board_version, last_seen |-> t]],
          status |-> REQUEST_OK]

\* register_controller that turns away a board last seen TIMEOUT ago.
register_controller_late(cs, form, t) ==
    IF exists(cs[form.board_id]) /\ t - cs[form.board_id].last_seen <= TIMEOUT
    THEN [controllers |-> cs, status |-> BAD_REQUEST]
    ELSE LET controller_dict ==
                 IF exists(cs[form.board_id]) THEN cs[form.board_id]
                 ELSE [game_id |-> None, last_ply_count |-> 0,
                       board_id |-> form.board_id,
                       board_version |-> form.board_version, last_seen |-> t]
         IN [controllers |-> [cs EXCEPT ![form.board_id] =
                                 [controller_dict EXCEPT !.last_seen = t]],
             status |-> REQUEST_OK]

\* POST /controllerregister at time t (the form has the fields of the schema):
\* the controllers collection after it and the status of the answer.
register_controller(cs, form, t) ==
    IF validate_controller_not_registered(cs, form.board_id, t) # None
    THEN [controllers |-> cs, status |-> BAD_REQUEST]
    ELSE LET controller_dict ==
                 IF exists(cs[form.board_id]) THEN cs[form.board_id]
                 ELSE [game_id |-> None, last_ply_count |-> 0,
                       board_id |-> form.board_id,
                       board_version |-> form.board_version, last_seen |-> t]
         IN [controllers |-> [cs EXCEPT ![form.board_id] =
                                 [controller_dict EXCEPT !.last_seen = t]],
             status |-> REQUEST_OK]

\* validate_controller_registered that turns away a board last seen TIMEOUT
\* ago.
validate_controller_registered_before(cs, value, t) ==
    IF ~exists(cs[value]) THEN "Controller not registered"
    ELSE IF t - cs[value].last_seen >= TIMEOUT
    THEN "Time out exceeded, please re-register"
    ELSE None

\* ControllerPollInput.validate_controller_registered
validate_controller_registered(cs, value, t) ==
    IF ~exists(cs[value]) THEN "Controller not registered"
    ELSE IF t - cs[value].last_seen > TIMEOUT
    THEN "Time out exceeded, please re-register"
    ELSE None

\* ControllerPollInput.validate_non_negative, on the fields it is applied to
validate_non_negative(form, stacked) ==
    IF form.ply_count < 0 THEN "Can not have negative ply_count or error"
    ELSE IF stacked /\ form.has_error /\ form.error < 0
    THEN "Can not have negative ply_count or error"
    ELSE None

\* ControllerPollInput.validate_ply_and_error_within_bounds
validate_ply_and_error_within_bounds(cs, gs, data) ==
    LET controller == cs[data.board_id]
        error == IF data.has_error THEN data.error ELSE 0
    IN IF controller.game_id = None THEN None
       ELSE IF data.ply_count > gs[controller.game_id].ply_count
       THEN "ply_count cannot be greater than the stored one for the game"
       ELSE IF error > data.ply_count
       THEN "error can not be greater than ply_count"
       ELSE None

\* ControllerPollInput(db).validate: the schema validator is skipped on a
\* field error.
validate_poll(cs, gs, form, t, stacked) ==
    IF validate_controller_registered(cs, form.board_id, t) # None
    THEN validate_controller_registered(cs, form.board_id, t)
    ELSE IF validate_non_negative(form, stacked) # None
    THEN validate_non_negative(form, stacked)
    ELSE validate_ply_and_error_within_bounds(cs, gs, form)

\* What a poll answers when it has nothing to deliver.
EmptyPollResponse ==
    [game_over |-> [game_over |-> FALSE, reason |-> None], history |-> <<>>]

\* The catch-up leaving out the first move the controller has not seen.
catch_up_after(game_dict, ply_count) ==
    SubSeq(game_dict.history, ply_count + 2, game_dict.ply_count)

\* The catch-up of controller_poll: the entries i of the history,
\* ply_count <= i < game_dict['ply_count'] (0-based).
catch_up(game_dict, ply_count) ==
    SubSeq(game_dict.history, ply_count + 1, game_dict.ply_count)

\* last_ply_count that never goes down.
polled_ply_count_max(last_ply_count, ply_count) ==
    IF last_ply_count > ply_count THEN last_ply_count ELSE ply_count

\* What controller_poll stores as last_ply_count.
polled_ply_count(last_ply_count, ply_count) == ply_count

\* The controller is taken to have finished a move also when it reports the
\* ply recorded.
has_finished_or_same(last_ply_count, ply_count) == last_ply_count <= ply_count

\* controller_poll: the controller has finished a move.
has_finished(last_ply_count, ply_count) == last_ply_count < ply_count

\* POST /controllerpoll at time t: the controllers collection after it, the
\* status, the events emitted in order and the response.
controller_poll(cs, gs, form, t, stacked) ==
    IF validate_poll(cs, gs, form, t, stacked) # None
    THEN [controllers |-> cs, status |-> BAD_REQUEST, emitted |-> <<>>,
          response |-> EmptyPollResponse]
    ELSE
    LET controller_dict == cs[form.board_id]
        game_id == controller_dict.game_id
        error == IF form.has_error THEN form.error ELSE -1
        ply_count == form.ply_count
        finished ==
            IF has_finished(controller_dict.last_ply_count, ply_count)
            THEN <<[event |-> "controller_finished", data |-> ply_count,
                    room |-> game_id]>>
            ELSE <<>>
        failed ==
            IF error # -1
            THEN <<[event |-> "controller_error", data |-> error,
                    room |-> game_id]>>
            ELSE <<>>
        poll_response ==
            IF game_id # None /\ error = -1
            THEN [game_over |-> gs[game_id].game_over,
                  history |-> catch_up(gs[game_id], ply_count)]
            ELSE EmptyPollResponse
    IN [controllers |-> [cs EXCEPT ![form.board_id] =
              [controller_dict EXCEPT
                  !.last_seen = t,
                  !.last_ply_count =
                      polled_ply_count(controller_dict.last_ply_count, ply_count)]],
        status |-> REQUEST_OK,
        emitted |-> finished \o failed,
        response |-> poll_response]

\* A game with both players, no controller registered, at time 0.
InitController ==
    /\ games = [id \in GameIds |->
                  to_dict(from_create_game_schema(
                      [creator_id |-> "1", player1_id |-> "1",
                       player2_id |-> "2", time_per_player |-> 1], id))]
    /\ controllers = [b \in BoardIds |-> NoDoc]
    /\ now = 0
    /\ counts = NoCounts
    /\ reqs = [s \in Slots |-> NoRequest]
    /\ answers = {}
    /\ nreq = 0
    /\ game = Game("1", "1", NoTime)
    /\ doc = NoDoc

\* Time passes.
Tick == \E d \in Delays :
    /\ now + d <= MaxNow
    /\ now' = now + d
    /\ UNCHANGED <<controllers, games, reqs, answers, nreq, game, doc, counts>>

\* POST /controllerregister
RegisterController == \E form \in RegisterForms :
    /\ controllers' = register_controller(controllers, form, now).controllers
    /\ UNCHANGED <<now, games, reqs, answers, nreq, game, doc, counts>>

\* POST /controllerpoll
ControllerPoll == \E form \in PollForms, stacked \in BOOLEAN :
    /\ controllers' = controller_poll(controllers, games, form, now, stacked).controllers
    /\ UNCHANGED <<now, games, reqs, answers, nreq, game, doc, counts>>

\* A game is assigned to a registered controller: the client of the database
\* writes game_id into the registration (no route of the server does).
AssignGame == \E b \in BoardIds, id \in GameIds :
    /\ exists(controllers[b])
    /\ controllers[b].game_id = None
    /\ controllers' = [controllers EXCEPT ![b].game_id = id]
    /\ UNCHANGED <<now, games, reqs, answers, nreq, game, doc, counts>>

\* POST /makemove handled alone: validated, applied and stored.
MakeMove == \E id \in GameIds, user \in Users, san \in CtlSans :
    /\ games[id].ply_count < MaxCtlPly
    /\ validate_move(games[id], [user |-> user, arg |-> san]) = None
    /\ games' = [games EXCEPT ![id] = to_dict(move(from_dict(games[id]).game, san).game)]
    /\ UNCHANGED <<now, controllers, reqs, answers, nreq, game, doc, counts>>

NextController ==
    Tick \/ RegisterController \/ ControllerPoll \/ AssignGame \/ MakeMove

SpecController == InitController /\ [][NextController]_vars

\* ------------------------------------------------- claims on the controllers

\* The registration of the board of a form, and the game assigned to it.
registration(form) == controllers[form.board_id]
assigned(form) == games[registration(form).game_id]

\* C12: an accepted poll without error reporting ply_count p, for a controller
\* with a game, returns the history entries of index >= p in order (ply_count
\* of the game minus p entries) and the game_over of the game; it returns an
\* empty history when no game is assigned or p is the game's ply_count.
C12_PollCatchUp ==
    \A form \in PollForms, stacked \in BOOLEAN :
        LET r == controller_poll(controllers, games, form, now, stacked)
            p == form.ply_count
        IN (~form.has_error /\ r.status = REQUEST_OK) =>
              IF registration(form).game_id = None
              THEN r.response.history = <<>>
              ELSE /\ Len(r.response.history) = assigned(form).ply_count - p
                   /\ \A k \in 1 .. Len(r.response.history) :
                         r.response.history[k] = assigned(form).history[p + k]
                   /\ r.response.game_over = assigned(form).game_over
                   /\ p = assigned(form).ply_count => r.response.history = <<>>

\* A controller with a game of two plies has reported ply 1.
C12_Witness ==
    \E b \in BoardIds :
        /\ exists(controllers[b])
        /\ controllers[b].game_id # None
        /\ controllers[b].last_ply_count = 1
        /\ games[controllers[b].game_id].ply_count = 2
        /\ now - controllers[b].last_seen <= TIMEOUT

\* C13: an accepted poll that carries an error returns an empty catch-up list
\* whatever the plies, emits controller_error and emits no
\* controller_finished.
C13_ErrorPollEmitsNoFinished ==
    \A form \in PollForms, stacked \in BOOLEAN :
        LET r == controller_poll(controllers, games, form, now, stacked) IN
        (form.has_error /\ form.error >= 0 /\ r.status = REQUEST_OK) =>
            /\ r.response.history = <<>>
            /\ \E i \in 1 .. Len(r.emitted) : r.emitted[i].event = "controller_error"
            /\ \A i \in 1 .. Len(r.emitted) : r.emitted[i].event # "controller_finished"

C15_ReRegisterKeepsAssignment ==
    \A form \in RegisterForms :
        LET r == register_controller(controllers, form, now)
            c == registration(form)
        IN (exists(c) /\ r.status = REQUEST_OK) =>
              r.controllers[form.board_id] = [c EXCEPT !.last_seen = now]

\* A board with a game and a reported ply has not been seen for more than
\* TIMEOUT: it can register again.
C15_Witness ==
    \E b \in BoardIds :
        /\ exists(controllers[b])
        /\ controllers[b].game_id # None
        /\ controllers[b].last_ply_count > 0
        /\ now - controllers[b].last_seen > TIMEOUT

\* C16: a poll is rejected when the board is not registered, when
\* now - last_seen > TIMEOUT, when ply_count is negative or exceeds the
\* ply_count of the assigned game, or when its error exceeds ply_count; a
\* rejected poll leaves the registrations as they are and emits nothing.
C16_PollRejected ==
    \A form \in PollForms, stacked \in BOOLEAN :
        LET r == controller_poll(controllers, games, form, now, stacked)
            c == registration(form)
        IN /\ ( \/ ~exists(c)
                \/ now - c.last_seen > TIMEOUT
                \/ form.ply_count < 0
                \/ (c.game_id # None /\ form.ply_count > assigned(form).ply_count)
                \/ (form.has_error /\ form.error > form.ply_count) )
              => r.status = BAD_REQUEST
           /\ r.status = BAD_REQUEST =>
                 r.controllers = controllers /\ r.emitted = <<>>

\* C17: every accepted poll sets last_seen = now and last_ply_count to the
\* ply_count reported, with or without an error, and also when the ply_count
\* is lower than the one recorded: the moves from it on are delivered again.
C17_PollRecordsPly ==
    \A form \in PollForms, stacked \in BOOLEAN :
        LET r == controller_poll(controllers, games, form, now, stacked)
            c == registration(form)
        IN r.status = REQUEST_OK =>
              /\ r.controllers =
                    [controllers EXCEPT ![form.board_id] =
                        [c EXCEPT !.last_seen = now,
                                  !.last_ply_count = form.ply_count]]
              /\ (~form.has_error /\ c.game_id # None) =>
                    Len(r.response.history) = assigned(form).ply_count - form.ply_count

\* A controller with a game has reported ply 2 and can poll: a poll reporting
\* a lower ply is accepted.
C17_Witness ==
    \E b \in BoardIds :
        /\ exists(controllers[b])
        /\ controllers[b].game_id # None
        /\ controllers[b].last_ply_count >= 2
        /\ now > controllers[b].last_seen
        /\ now - controllers[b].last_seen <= TIMEOUT

\* --------------------------------------------- more claims on the Game object

\* C18: from_dict(to_dict(g)) has the move list of g (history and move stack
\* of the board), its ply_count, remaining_time, resigned and draw_offers, so
\* the same result, in_progress and game_over, and the same to_dict.
C18_RoundTrip ==
    LET d == to_dict(game)
        r == from_dict(d)
    IN /\ r.raised = "none"
       /\ r.game.history = game.history
       /\ r.game.board.move_stack = game.board.move_stack
       /\ r.game.plies = game.plies
       /\ r.game.remaining_time = game.remaining_time
       /\ r.game.resigned = game.resigned
       /\ r.game.draw_offers = game.draw_offers
       /\ result(r.game) = result(game)
       /\ in_progress(r.game) = in_progress(game)
       /\ game_over(r.game) = game_over(game)
       /\ to_dict(r.game) = d

\* A timed game with moves, a changed clock and a draw offer.
C18_Witness ==
    /\ game.plies >= 3
    /\ game.time_controls = 1
    /\ game.remaining_time[BLACK] = 2
    /\ game.draw_offers[WHITE].made

\* C19: no identifier is on both sides; add_player(id, side) fails if side is
\* no side, if id is on the other side or if the slot of side is occupied, and
\* then leaves the players as they are; an occupied slot keeps its occupant,
\* so free_slots (0, 1 or 2) never goes up.
C19_Players ==
    /\ [](/\ ~(game.players[WHITE] # None /\ game.players[WHITE] = game.players[BLACK])
          /\ free_slots(game) = Cardinality({s \in Sides : game.players[s] = None})
          /\ \A id_ \in Ids, side \in Sides \cup {"z"} :
                LET r == add_player(game, id_, side) IN
                IF side \notin Sides
                   \/ game.players[invert(side)] = id_
                   \/ game.players[side] # None
                THEN r.raised # "none" /\ r.game = game
                ELSE r.raised = "none"
                     /\ r.game = [game EXCEPT !.players[side] = id_])
    /\ [][/\ \A s \in Sides :
                game.players[s] # None => game'.players[s] = game.players[s]
          /\ free_slots(game') <= free_slots(game)]_vars

\* Both slots are occupied.
C19_Witness == free_slots(game) = 0 /\ game.players[WHITE] = "2"

\* C20: resign(side) on a game in progress sets resigned[side] (the side to
\* move if none is named); the result is then the win of the other side and
\* game_over gives 'Resignation'; resigning again changes nothing, and
\* resigned[side] never goes back to false.
C20_Resign ==
    /\ [](\A side0 \in SideArgs :
            LET side == IF side0 = None THEN turn(game) ELSE side0
                r == resign(game, side0)
            IN in_progress(game) =>
                  /\ r.raised = "none"
                  /\ r.game = [game EXCEPT !.resigned[side] = TRUE]
                  /\ result(r.game) = SCORES(invert(side))
                  /\ game_over(r.game) = [game_over |-> TRUE, reason |-> "Resignation"]
                  /\ resign(r.game, side0).game = r.game
                  /\ resign(r.game, side).game = r.game)
    /\ [][\A s \in Sides : game.resigned[s] => game'.resigned[s]]_vars

\* Black has resigned when it was White's move, after two plies.
C20_Witness ==
    /\ game.resigned[BLACK] /\ ~game.resigned[WHITE]
    /\ game.plies = 2
    /\ result(game) = SCORES(WHITE)

\* C21: a Game created with time_controls = 0 is over from the start: its
\* result is the draw, it is not in progress, game_over gives 'Time', and no
\* move is ever accepted on it.
C21_ZeroTimeControl ==
    game.time_controls = 0 =>
        /\ result(game) = SCORES("draw")
        /\ ~in_progress(game)
        /\ game_over(game) = [game_over |-> TRUE, reason |-> "Time"]
        /\ game.plies = 0 /\ game.history = <<>>
        /\ \A san \in Sans :
              move(game, san).raised # "none" /\ move(game, san).game = game

\* A game without time that has both its players.
C21_Witness ==
    /\ game.time_controls = 0
    /\ game.players[WHITE] = "1" /\ game.players[BLACK] = "2"

\* C22: move tests in a fixed order: on a game that is over it raises the
\* error of the ended game, also without a player to move and with a SAN that
\* is not legal; on a game in progress without a player to move it raises the
\* error of the missing player, also with such a SAN; the engine decides only
\* when both tests pass.
C22_MoveCheckOrder ==
    \A san \in Sans :
        LET r == move(game, san) IN
        IF ~in_progress(game) THEN r.raised = "RuntimeError: ended game"
        ELSE IF game.players[turn(game)] = None
        THEN r.raised = "RuntimeError: No player found"
        ELSE IF is_legal(game.board.pos, san) THEN r.raised = "none"
        ELSE r.raised = "ValueError: invalid san"

\* White has resigned a game in which the side to move has no player.
C22_Witness ==
    /\ game.resigned[WHITE]
    /\ game.players[turn(game)] = None

\* C23: accept_draw(side) does nothing if the game is over or the opponent has
\* made no offer; otherwise it sets the opponent's accepted and no other flag,
\* and then the result is the draw and game_over gives 'Draw by agreement'.
C23_AcceptDraw ==
    \A side \in Sides :
        LET r == accept_draw(game, side)
            opp == invert(side)
        IN /\ r.raised = "none"
           /\ IF ~in_progress(game) \/ ~game.draw_offers[opp].made
              THEN r.game = game
              ELSE /\ r.game = [game EXCEPT !.draw_offers[opp].accepted = TRUE]
                   /\ result(r.game) = SCORES("draw")
                   /\ game_over(r.game) =
                         [game_over |-> TRUE, reason |-> "Draw by agreement"]

\* Black has accepted White's offer without offering.
C23_Witness ==
    /\ game.draw_offers[WHITE].made /\ game.draw_offers[WHITE].accepted
    /\ ~game.draw_offers[BLACK].made

\* C24: decline_draw(side) does nothing if the game is over, the opponent has
\* made no offer, or the opponent's offer is accepted; otherwise it resets the
\* opponent's made and nothing else, the game stays in progress, and an
\* offer_draw of the opponent sets made again.
C24_DeclineDraw ==
    \A side \in Sides :
        LET r == decline_draw(game, side)
            opp == invert(side)
        IN /\ r.raised = "none"
           /\ IF \/ ~in_progress(game)
                 \/ ~game.draw_offers[opp].made
                 \/ game.draw_offers[opp].accepted
              THEN r.game = game
              ELSE /\ r.game = [game EXCEPT !.draw_offers[opp].made = FALSE]
                   /\ in_progress(r.game)
                   /\ offer_draw(r.game, opp).game.draw_offers[opp].made

\* White's offer stands in a game in progress after a move of each side.
C24_Witness ==
    /\ in_progress(game)
    /\ game.plies = 2
    /\ game.draw_offers[WHITE].made /\ ~game.draw_offers[BLACK].made

\* C25: an accepted poll emits controller_finished if and only if the
\* ply_count it reports is greater than the last_ply_count recorded before
\* it; the same poll again, with no move in between, is accepted, returns the
\* same catch-up and emits no controller_finished.
C25_FinishedOnAdvance ==
    \A form \in PollForms, stacked \in BOOLEAN :
        LET r == controller_poll(controllers, games, form, now, stacked)
            finished(e) == \E i \in 1 .. Len(e) : e[i].event = "controller_finished"
        IN r.status = REQUEST_OK =>
              /\ finished(r.emitted) <=>
                    form.ply_count > registration(form).last_ply_count
              /\ \A d \in Delays \cup {0} :
                    LET again == controller_poll(r.controllers, games, form,
                                                 now + d, stacked)
                    IN /\ again.status = REQUEST_OK
                       /\ again.response = r.response
                       /\ ~finished(again.emitted)

\* A controller has reported the three plies of its game.
C25_Witness ==
    \E b \in BoardIds :
        /\ exists(controllers[b])
        /\ controllers[b].game_id # None
        /\ controllers[b].last_ply_count = 3
        /\ games[controllers[b].game_id].ply_count = 3
        /\ now - controllers[b].last_seen <= TIMEOUT

\* C30: in every state reached by operations from a new Game at most one
\* termination cause holds among: the engine's rules end the position, a side
\* has resigned, a draw offer is accepted, a clock is 0; at most one side has
\* resigned, and a resignation and an accepted draw never coexist.
C30_OneTerminationCause ==
    LET causes == {c \in {"rules", "resigned", "accepted", "time"} :
                      \/ c = "rules" /\ is_game_over(game.board)
                      \/ c = "resigned" /\ AnyResigned(game)
                      \/ c = "accepted" /\ AnyAccepted(game)
                      \/ c = "time" /\ AnyClockZero(game)}
    IN /\ Cardinality(causes) <= 1
       /\ ~(game.resigned[WHITE] /\ game.resigned[BLACK])
       /\ ~(AnyResigned(game) /\ AnyAccepted(game))

\* A side has resigned after moves of both sides, with time left on the clocks.
C30_Witness ==
    /\ AnyResigned(game)
    /\ game.plies >= 2
    /\ game.time_controls > 0

\* --------------------------------------------- more claims on the handlers

\* C26: the /makemove handler writes the updated snapshot to the store before
\* it broadcasts 'move' and before it returns success (the step that writes
\* puts the move in the stored snapshot and answers nothing; every request
\* answered as successful has written, then emitted, then returned); a
\* rejected move request writes nothing and broadcasts nothing.
C26_WriteBeforeEmit ==
    /\ [](\A a \in answers : a.kind = "makemove" =>
             a.trace = IF a.status = REQUEST_OK THEN <<"set", "move", "return">>
                       ELSE <<>>)
    /\ [](\A s \in Slots : reqs[s].kind = "makemove" =>
             reqs[s].trace = IF reqs[s].pc = "written" THEN <<"set">> ELSE <<>>)
    /\ [][\A s \in Slots, id \in GameIds :
             (reqs[s].kind = "makemove" /\ reqs[s].pc = "loaded"
                 /\ reqs'[s].pc = "written")
             => /\ games'[id].ply_count = reqs'[s].ply
                /\ games'[id].history[reqs'[s].ply].san = reqs[s].arg
                /\ answers' = answers]_vars
    /\ [][(\E a \in answers' \ answers :
               a.kind = "makemove" /\ a.status # REQUEST_OK)
            => games' = games]_vars

\* A move request was answered as successful and another was rejected.
C26_Witness ==
    /\ \E a \in answers : a.kind = "makemove" /\ a.status = REQUEST_OK
    /\ \E a \in answers : a.kind = "makemove" /\ a.status = BAD_REQUEST

\* The game after the moves of sans, made in order.
RECURSIVE moved(_, _)
moved(g, sans) ==
    IF sans = <<>> THEN g ELSE moved(move(g, sans[1]).game, Tail(sans))

\* A game under way in the store: created for users 1 and 2, then 1. c4 c6
\* 2. Nc3 d5 were played; and no request.
InitRace ==
    /\ games = [id \in GameIds |->
                  to_dict(moved(from_create_game_schema(
                                    [creator_id |-> "1", player1_id |-> "1",
                                     player2_id |-> "2", time_per_player |-> 1], id),
                                <<"c4", "c6", "Nc3", "d5">>))]
    /\ reqs = [s \in Slots |-> NoRequest]
    /\ answers = {}
    /\ nreq = 0
    /\ game = Game("1", "1", NoTime)
    /\ doc = NoDoc
    /\ controllers = [b \in BoardIds |-> NoDoc]
    /\ now = 0
    /\ counts = NoCounts

\* The routes on the game under way.
SpecRace == InitRace /\ [][NextServer]_vars

\* C27: a /makemove request is accepted only if the submitting user is the
\* occupant of the side to move in the stored game: every move answered as
\* successful was made for the side that the submitting user occupies.
C27_OnlyTheSideToMove ==
    \A id \in GameIds : \A a \in answers :
        (a.kind = "makemove" /\ a.status = REQUEST_OK)
        => games[id].players[a.side] = a.user

\* C28: every /makemove request that is not applied is answered as a client
\* error (400), never as an unhandled failure of the server, under every
\* interleaving with the other requests on the game.
C28_MoveNotAppliedIsClientError ==
    \A a \in answers :
        (a.kind = "makemove" /\ a.status # REQUEST_OK) => a.status = BAD_REQUEST

\* ------------------------------------------------ captures and en passant

\* The SAN texts submitted to Game.move in the games with captures.
CaptureSans == {"a4", "a5", "b4", "b5", "axb6", "bxa3",
                "c4", "c6", "d5", "cxd5", "Nc3", "Nd5"}

\* A new game with both players.
InitCapture ==
    /\ game = played(<<>>)
    /\ doc = NoDoc
    /\ NoServer

\* Game.move
MoveCapture == \E san \in CaptureSans :
    /\ game.plies < MaxCapturePly
    /\ game' = move(game, san).game
    /\ UNCHANGED others

NextCapture == MoveCapture

SpecCapture == InitCapture /\ [][NextCapture]_vars

\* The last move made and the position it was made in.
last_move == game.history[Len(game.history)]
position_before == game.board.stack[Len(game.board.stack)]

\* The last move was a pawn going diagonally to an empty square.
LastMoveEnPassant ==
    /\ game.plies > 0
    /\ last_move.piece = "p"
    /\ square_file(square(last_move.from)) # square_file(square(last_move.to))
    /\ piece_at(position_before, last_move.to) = None

\* The last move went to a square where a man stood.
LastMoveOtherCapture ==
    /\ game.plies > 0
    /\ piece_at(position_before, last_move.to) # None

\* C29: the descriptor of an accepted en passant capture has capture.capture,
\* capture.piece 'p', en_passant.en_passant, and en_passant.square the square
\* on the file of 'to' one rank toward the mover's back rank (to - 8 for
\* White, to + 8 for Black), where the pawn taken stood; the descriptor of
\* every other capture has capture.piece the kind of the piece that stood on
\* 'to' before the move and en_passant.square null.
C29_EnPassantDescriptor ==
    /\ LastMoveEnPassant =>
          LET behind == square_name(square(last_move.to)
                                    + (IF last_move.side = WHITE THEN -8 ELSE 8))
          IN /\ last_move.capture = [capture |-> TRUE, piece |-> "p"]
             /\ last_move.en_passant = [en_passant |-> TRUE, square |-> behind]
             /\ piece_at(position_before, behind) = pawn(other(last_move.side))
             /\ piece_at(game.board.pos, behind) = None
    /\ LastMoveOtherCapture =>
          /\ last_move.capture =
                [capture |-> TRUE,
                 piece |-> lower(piece_at(position_before, last_move.to))]
          /\ last_move.en_passant = [en_passant |-> FALSE, square |-> None]

\* White has taken en passant on b6 and Black has taken back with the a-pawn.
C29_Witness ==
    /\ LastMoveOtherCapture
    /\ \E i \in 1 .. Len(game.history) :
          /\ game.history[i].en_passant.en_passant
          /\ game.history[i].side = WHITE

\* Black has taken en passant.
C29_BlackWitness ==
    /\ LastMoveEnPassant
    /\ last_move.side = BLACK

\* ------------------------------------------------ the clocks and the reasons

\* C31: in every state reached from a Game created with time_controls > 0 the
\* two clocks are never both 0; once the clock of a side is 0 the game is
\* over and no time_delta changes a clock again.
C31_ClocksNeverBothZero ==
    game.time_controls > 0 =>
        /\ ~(game.remaining_time[WHITE] = 0 /\ game.remaining_time[BLACK] = 0)
        /\ AnyClockZero(game) =>
              /\ ~in_progress(game)
              /\ game_over(game).game_over
              /\ \A delta \in Deltas, side0 \in SideArgs :
                    time_delta(game, delta, side0).game = game

\* The clock of Black has run out after a move of each side, and White has
\* time left.
C31_Witness ==
    /\ game.time_controls > 0
    /\ game.remaining_time[BLACK] = 0
    /\ game.remaining_time[WHITE] > 0
    /\ game.plies >= 2

\* The answer `over` of game_over fits the result r of game g.
Agree(g, over, r) ==
    /\ over.game_over <=> r # "*"
    /\ over.game_over <=> ~in_progress(g)
    /\ over.reason = "Resignation" =>
          \E s \in Sides : /\ g.resigned[s] /\ ~g.resigned[other(s)]
                           /\ r = SCORES(other(s))
    /\ over.reason = "Draw by agreement" => r = SCORES("draw")
    /\ over.reason = "Time" =>
          IF g.remaining_time[WHITE] = 0 /\ g.remaining_time[BLACK] = 0
          THEN r = SCORES("draw")
          ELSE \E s \in Sides : /\ g.remaining_time[s] = 0
                                /\ g.remaining_time[other(s)] # 0
                                /\ r = SCORES(other(s))

\* C32: in every state reached by the operations game_over and result agree:
\* game_over.game_over is true exactly when result is not '*' (in_progress is
\* false), 'Resignation' goes with a win of the side that has not resigned,
\* 'Draw by agreement' with '1/2-1/2', and 'Time' with a win of the side
\* whose clock is not 0 ('1/2-1/2' when both are 0).
C32_GameOverAgreesWithResult ==
    Agree(game, game_over(game), result(game))

\* Black's clock has run out in a game under way: 'Time' and a win of White.
C32_Witness ==
    /\ game.plies >= 1
    /\ game_over(game) = [game_over |-> TRUE, reason |-> "Time"]
    /\ result(game) = SCORES(WHITE)

\* ------------------------------------------------------- the draw offers

\* C33: in every state reached by the operations, an accepted offer of a side
\* has been made; at most one side's offer is accepted; and both sides have an
\* offer made only if one of the two is accepted.
C33_DrawOffersConsistent ==
    /\ \A s \in Sides : game.draw_offers[s].accepted => game.draw_offers[s].made
    /\ ~(game.draw_offers[WHITE].accepted /\ game.draw_offers[BLACK].accepted)
    /\ (game.draw_offers[WHITE].made /\ game.draw_offers[BLACK].made)
          => AnyAccepted(game)

\* After a move of each side Black has offered a draw and White has answered
\* with an offer of its own: both offers are made and Black's is accepted.
C33_Witness ==
    /\ game.plies >= 2
    /\ game.draw_offers[WHITE] = [made |-> TRUE, accepted |-> FALSE]
    /\ game.draw_offers[BLACK] = [made |-> TRUE, accepted |-> TRUE]

\* The games after one call of offer_draw, accept_draw or decline_draw for
\* side t on game g.
DrawCalls(g, t) ==
    {offer_draw(g, t).game, accept_draw(g, t).game, decline_draw(g, t).game}

\* The games after any sequence of such calls for side t on the games of S.
RECURSIVE CalledAlone(_, _)
CalledAlone(S, t) ==
    LET N == S \cup UNION {DrawCalls(g, t) : g \in S}
    IN IF N = S THEN S ELSE CalledAlone(N, t)

\* The step makes the offer of side s accepted.
Accepts(s) ==
    ~game.draw_offers[s].accepted /\ game'.draw_offers[s].accepted

\* The step is accept_draw or offer_draw, invoked for side t.
AcceptOrOfferFor(t) ==
    \E side0 \in SideArgs :
        /\ side_or_turn(game, side0) = t
        /\ \/ game' = accept_draw(game, side0).game
           \/ game' = offer_draw(game, side0).game

\* C34: no side can agree a draw alone.  The offer of side s becomes accepted
\* only in a step that is accept_draw or offer_draw invoked for the other
\* side, while s has an offer made; and from a game in progress in which the
\* other side has no offer made, no sequence of offer_draw, accept_draw and
\* decline_draw calls all invoked for one side ends the game.
C34_NoDrawAlone ==
    /\ [][\A s \in Sides :
             Accepts(s) => game.draw_offers[s].made /\ AcceptOrOfferFor(other(s))]_vars
    /\ [](\A t \in Sides :
             (in_progress(game) /\ ~game.draw_offers[other(t)].made)
             => \A g \in CalledAlone({game}, t) :
                   in_progress(g) /\ ~AnyAccepted(g))

\* After three moves White has accepted the offer of Black without making one.
C34_Witness ==
    /\ game.plies >= 3
    /\ game.draw_offers[BLACK] = [made |-> TRUE, accepted |-> TRUE]
    /\ game.draw_offers[WHITE] = [made |-> FALSE, accepted |-> FALSE]

\* ------------------------------------------- a controller following a game

\* A game with both players in the store and a controller registered for it
\* that has acknowledged no ply; no request.
InitFollow ==
    /\ games = [id \in GameIds |->
                  to_dict(from_create_game_schema(
                      [creator_id |-> "1", player1_id |-> "1",
                       player2_id |-> "2", time_per_player |-> 1], id))]
    /\ controllers = [b \in BoardIds |->
                        [game_id |-> "1", last_ply_count |-> 0, board_id |-> b,
                         board_version |-> "v1", last_seen |-> 0]]
    /\ now = 0
    /\ counts = NoCounts
    /\ reqs = [s \in Slots |-> NoRequest]
    /\ answers = {}
    /\ nreq = 0
    /\ game = Game("1", "1", NoTime)
    /\ doc = NoDoc

\* The workers handle /makemove requests while the controller polls.
NextFollow ==
    \/ \E s \in Slots : MakeMoveRequest(s) \/ Load(s) \/ Write(s) \/ Respond(s)
    \/ ControllerPoll

SpecFollow == InitFollow /\ [][NextFollow]_vars

\* C35: while the game assigned to a controller is unchanged, the
\* last_ply_count stored for the controller never exceeds the ply_count
\* stored for that game, whatever polls and moves have been handled.
C35_LastPlyWithinGame ==
    \A b \in BoardIds :
        (exists(controllers[b]) /\ controllers[b].game_id # None)
        => controllers[b].last_ply_count
              <= games[controllers[b].game_id].ply_count

\* ------------------------------------------ a controller catching up

\* The polls answered to the controller, in order: each answer carries its
\* number n, the ply_count reported and the catch-up set received.
PollAnswers == {a \in answers : a.kind = "controllerpoll"}
poll_answer(n) == CHOOSE a \in PollAnswers : a.n = n

\* The ply_count the controller reports next: 0 at first, then the ply_count
\* it reported last plus the number of descriptors it received.
next_ply_count ==
    IF PollAnswers = {} THEN 0
    ELSE poll_answer(Cardinality(PollAnswers)).ply_count
         + Len(poll_answer(Cardinality(PollAnswers)).history)

\* The catch-up sets the controller has received in answers 1 .. n, in order.
RECURSIVE received_up_to(_, _)
received_up_to(as, n) ==
    IF n = 0 THEN <<>>
    ELSE received_up_to(as, n - 1) \o (CHOOSE a \in as : a.n = n).history

\* The catch-up sets received so far, after this step.
received == received_up_to(PollAnswers, Cardinality(PollAnswers))
PollAnswersAfter == {a \in answers' : a.kind = "controllerpoll"}
received_after ==
    received_up_to(PollAnswersAfter, Cardinality(PollAnswersAfter))

\* POST /controllerpoll by the controller that keeps count, without an error:
\* an accepted poll is answered with its catch-up set.
CatchUpPoll == \E b \in BoardIds, stacked \in BOOLEAN :
    LET form == [board_id |-> b, ply_count |-> next_ply_count,
                 has_error |-> FALSE, error |-> 0]
        out == controller_poll(controllers, games, form, now, stacked)
    IN /\ Cardinality(PollAnswers) < MaxPolls
       /\ controllers' = out.controllers
       /\ answers' =
            IF out.status = REQUEST_OK
            THEN answers \cup {[kind |-> "controllerpoll",
                                n |-> Cardinality(PollAnswers) + 1,
                                ply_count |-> form.ply_count,
                                history |-> out.response.history]}
            ELSE answers
       /\ UNCHANGED <<now, games, reqs, nreq, game, doc, counts>>

\* The workers handle /makemove requests while the controller catches up.
NextCatchUp ==
    \/ \E s \in Slots : MakeMoveRequest(s) \/ Load(s) \/ Write(s) \/ Respond(s)
    \/ CatchUpPoll

SpecCatchUp == InitFollow /\ [][NextCatchUp]_vars

\* Sequence p is a prefix of sequence h.
IsPrefix(p, h) == Len(p) <= Len(h) /\ p = SubSeq(h, 1, Len(p))

\* C36: catch-up is complete and gap-free.  For a controller that starts at
\* ply 0 and after every accepted poll reports the ply_count it reported plus
\* the number of descriptors it received, the catch-up sets received, put
\* together in order, are always a prefix of the stored history of the game,
\* and right after each accepted poll they are that history, whatever moves
\* are made between the polls.
C36_CatchUpGapFree ==
    /\ [](\A id \in GameIds : IsPrefix(received, games[id].history))
    /\ [][\A id \in GameIds :
             PollAnswersAfter # PollAnswers
             => received_after = games[id].history]_vars

\* ------------------------------------------------- the heartbeat of a board

\* The time since board b was last seen.
elapsed(b) == now - controllers[b].last_seen

\* A register request for board b is accepted now; a poll of board b passes
\* the test of its registration now.
RegisterAccepted(b) ==
    /\ validate_controller_not_registered(controllers, b, now) = None
    /\ \A form \in RegisterForms :
          form.board_id = b
          => register_controller(controllers, form, now).status = REQUEST_OK
PollFresh(b) == validate_controller_registered(controllers, b, now) = None

\* C37: for a registered board, register is accepted exactly when the time
\* since it was last seen is at least TIMEOUT and a poll passes the test of
\* the registration exactly when that time is at most TIMEOUT: at every
\* instant one of the two is accepted, and both only when the time is TIMEOUT
\* exactly.
C37_RegisterOrPoll ==
    \A b \in BoardIds :
        exists(controllers[b]) =>
            /\ RegisterAccepted(b) <=> elapsed(b) >= TIMEOUT
            /\ PollFresh(b) <=> elapsed(b) <= TIMEOUT
            /\ RegisterAccepted(b) \/ PollFresh(b)
            /\ (RegisterAccepted(b) /\ PollFresh(b)) <=> elapsed(b) = TIMEOUT
            /\ ~RegisterAccepted(b) =>
                  \A form \in RegisterForms :
                      register_controller(controllers, form, now).status
                          = BAD_REQUEST

\* A board with a game was last seen TIMEOUT ago, after it had polled.
C37_Witness ==
    \E b \in BoardIds :
        /\ exists(controllers[b])
        /\ controllers[b].game_id # None
        /\ controllers[b].last_seen > 0
        /\ elapsed(b) = TIMEOUT

\* The times between the requests of a board that keeps its heartbeat.
HeartbeatDelays == {20, 39}

\* Time passes, and no registered board lets TIMEOUT go by since it was last
\* seen: its next accepted poll comes less than TIMEOUT after the last one.
HeartbeatTick == \E d \in HeartbeatDelays :
    /\ now + d <= MaxNow
    /\ \A b \in BoardIds :
          exists(controllers[b]) => now + d - controllers[b].last_seen < TIMEOUT
    /\ now' = now + d
    /\ UNCHANGED <<controllers, games, reqs, answers, nreq, game, doc, counts>>

NextHeartbeat ==
    HeartbeatTick \/ RegisterController \/ ControllerPoll \/ AssignGame \/ MakeMove

\* The routes of the controllers for a board that keeps its heartbeat.
SpecHeartbeat == InitController /\ [][NextHeartbeat]_vars

\* The step changes the registrations as an accepted poll of board b does,
\* one that reports the ply_count recorded by the step.
AcceptedPoll(b) ==
    LET form == [board_id |-> b, ply_count |-> controllers'[b].last_ply_count,
                 has_error |-> FALSE, error |-> 0]
        out == controller_poll(controllers, games, form, now, FALSE)
    IN out.status = REQUEST_OK /\ controllers' = out.controllers

\* C38: a controller whose accepted polls (or registration and polls) are each
\* less than TIMEOUT apart never gets a timeout rejection, and every register
\* request for its board is rejected meanwhile and changes nothing: its
\* registration and board_version stay, its game is not taken away, and its
\* last_ply_count changes only by its own accepted polls.
C38_Heartbeat ==
    /\ [](\A b \in BoardIds :
             exists(controllers[b]) =>
                /\ elapsed(b) < TIMEOUT
                /\ PollFresh(b)
                /\ \A form \in RegisterForms :
                      form.board_id = b =>
                         /\ register_controller(controllers, form, now).status
                               = BAD_REQUEST
                         /\ register_controller(controllers, form, now).controllers
                               = controllers)
    /\ [][\A b \in BoardIds :
             exists(controllers[b]) =>
                /\ exists(controllers'[b])
                /\ controllers'[b].board_version = controllers[b].board_version
                /\ controllers[b].game_id # None
                      => controllers'[b].game_id = controllers[b].game_id
                /\ controllers'[b].last_ply_count # controllers[b].last_ply_count
                      => AcceptedPoll(b)
                /\ controllers'[b].last_seen # controllers[b].last_seen
                      => AcceptedPoll(b)]_vars

\* A board with a game that has reported a ply was last seen 59 seconds ago,
\* after polls 20 and 39 seconds apart.
C38_Witness ==
    \E b \in BoardIds :
        /\ exists(controllers[b])
        /\ controllers[b].game_id # None
        /\ controllers[b].last_ply_count > 0
        /\ controllers[b].last_seen >= 59
        /\ elapsed(b) = 59

\* -------------------------------------------------------- creating a game

\* /creategame keeps the number of games created in the document
\* counts/games and stores each game under the next number.  The handler
\* reads the counter, stores the game, reads the counter again and writes the
\* number it used; nothing holds the counter between these steps.

\* The ids the counter can give and the forms of the requests ("3" is no user).
CreateIds == {ToString(n) : n \in 1 .. MaxRequests}
CreateForms ==
    [creator_id : {"1", "2", "3"}, player1_id : {"1"},
     player2_id : {OPEN_SLOT, "3"}, time_per_player : {1}]

\* str(n) and int(s) of the counter
str(n) == ToString(n)
int(s) == CHOOSE n \in 0 .. MaxRequests + 1 : ToString(n) = s

\* CreateGameInput: validate_time, player_valid, creator_exists.  stacked:
\* whether the build's marshmallow applies player_valid to both fields its two
\* stacked @validates name, or to player1_id only.
validate_create_game(form, stacked) ==
    IF form.time_per_player < 0 THEN "Cannot have negative time"
    ELSE IF form.player1_id \notin {OPEN_SLOT, AI} \cup Users
    THEN "User doesn't exist!"
    ELSE IF stacked /\ form.player2_id \notin {OPEN_SLOT, AI} \cup Users
    THEN "User doesn't exist!"
    ELSE IF form.creator_id \notin Users THEN "User doesn't exist!"
    ELSE None

\* A /creategame request: its number (n), its form, the id it took from the
\* counter (count) and the Game object it built (g).
CreateRequest(pc, n, form, count, g) ==
    [pc |-> pc, kind |-> "creategame", n |-> n, form |-> form,
     count |-> count, g |-> g]

\* The answer to a /creategame request: the document get_game returned.
CreateAnswer(r, status, d) ==
    [kind |-> "creategame", n |-> r.n, status |-> status, count |-> r.count,
     doc |-> d]

InitCreate ==
    /\ games = [id \in CreateIds |-> NoDoc]
    /\ counts = NoCounts
    /\ reqs = [s \in Slots |-> NoRequest]
    /\ answers = {}
    /\ nreq = 0
    /\ game = Game("1", "1", NoTime)
    /\ doc = NoDoc
    /\ controllers = [b \in BoardIds |-> NoDoc]
    /\ now = 0

\* create_game: the request arrives and CreateGameInput validates its form.
CreateGameRequest(s) == \E form \in CreateForms, stacked \in BOOLEAN :
    /\ reqs[s].pc = "idle"
    /\ nreq < MaxRequests
    /\ nreq' = nreq + 1
    /\ IF validate_create_game(form, stacked) # None
       THEN /\ answers' = answers \cup
                   {CreateAnswer(CreateRequest("idle", nreq + 1, form, None, NoDoc),
                                 BAD_REQUEST, NoDoc)}
            /\ reqs' = reqs
       ELSE /\ reqs' = [reqs EXCEPT
                           ![s] = CreateRequest("validated", nreq + 1, form, None, NoDoc)]
            /\ answers' = answers
    /\ UNCHANGED <<games, counts, game, doc, controllers, now>>

\* create_game: count = str(int(count_ref.get().to_dict()['count']) + 1), and
\* the Game object of the form under that id.
ReadCount(s) ==
    /\ reqs[s].pc = "validated"
    /\ reqs' = [reqs EXCEPT
                   ![s] = CreateRequest("counted", @.n, @.form,
                                        str(counts[GAMES_COLLECTION].count + 1),
                                        from_create_game_schema(
                                            @.form,
                                            str(counts[GAMES_COLLECTION].count + 1)))]
    /\ UNCHANGED <<games, counts, answers, nreq, game, doc, controllers, now>>

\* create_game: doc_ref.set(game.to_dict())
SetGame(s) ==
    /\ reqs[s].pc = "counted"
    /\ games' = [games EXCEPT ![reqs[s].count] = to_dict(reqs[s].g)]
    /\ reqs' = [reqs EXCEPT ![s].pc = "stored"]
    /\ UNCHANGED <<counts, answers, nreq, game, doc, controllers, now>>

\* create_game: the counter document is read again, its count is set to
\* int(count) and it is written back.
SetCount(s) ==
    /\ reqs[s].pc = "stored"
    /\ counts' = [counts EXCEPT ![GAMES_COLLECTION].count = int(reqs[s].count)]
    /\ reqs' = [reqs EXCEPT ![s].pc = "recounted"]
    /\ UNCHANGED <<games, answers, nreq, game, doc, controllers, now>>

\* create_game: return get_game(doc_ref.id)
ReturnGame(s) ==
    /\ reqs[s].pc = "recounted"
    /\ answers' = answers \cup
           {IF exists(games[reqs[s].count])
            THEN CreateAnswer(reqs[s], REQUEST_OK, games[reqs[s].count])
            ELSE CreateAnswer(reqs[s], BAD_REQUEST, NoDoc)}
    /\ reqs' = [reqs EXCEPT ![s] = NoRequest]
    /\ UNCHANGED <<games, counts, nreq, game, doc, controllers, now>>

NextCreate == \E s \in Slots :
    \/ CreateGameRequest(s)
    \/ ReadCount(s)
    \/ SetGame(s)
    \/ SetCount(s)
    \/ ReturnGame(s)

SpecCreate == InitCreate /\ [][NextCreate]_vars

\* The successful /creategame requests answered so far.
Created == {a \in answers : a.kind = "creategame" /\ a.status = REQUEST_OK}

\* No create request is being handled.
NoCreateInFlight == \A s \in Slots : reqs[s].pc = "idle"

\* C39: game ids are unique: under every interleaving of /creategame requests,
\* each successful request stores its game under an id that no other created
\* game has, the counter document ends equal to the number of games created,
\* and no create request overwrites a game stored by another.
C39_GameIdsUnique ==
    /\ [](\A a, b \in Created : a.n # b.n => a.count # b.count)
    /\ [](NoCreateInFlight =>
              counts[GAMES_COLLECTION].count = Cardinality(Created))
    /\ [][\A id \in CreateIds :
              games'[id] # games[id] => ~exists(games[id])]_vars

\* ------------------------------------------------ joining a finished game

\* A game in progress with the players of g: a new game without clocks.
InProgressWith(g) == [Game(g.creator, g.id, NoTime) EXCEPT !.players = g.players]

\* add_player(id_, side) does to g what it does to the game in progress q
\* with the same players, and changes no field of g but players.
SameAsInProgress(g, q, id_, side) ==
    /\ in_progress(q)
    /\ add_player(g, id_, side).raised = add_player(q, id_, side).raised
    /\ add_player(g, id_, side).game.players = add_player(q, id_, side).game.players
    /\ free_slots(add_player(g, id_, side).game)
           = free_slots(add_player(q, id_, side).game)
    /\ add_player(g, id_, side).raised = "none"
           => /\ g.players[side] = None
              /\ add_player(g, id_, side).game.players[side] = id_
              /\ free_slots(add_player(g, id_, side).game) = free_slots(g) - 1
    /\ [add_player(g, id_, side).game EXCEPT !.players = g.players] = g
    /\ result(add_player(g, id_, side).game) = result(g)
    /\ game_over(add_player(g, id_, side).game) = game_over(g)

\* C40: add_player does not depend on the game's status: on a game that is
\* over it fills an empty slot (players and free_slots change) under the same
\* conditions as on a game in progress, and it leaves result, game_over and
\* every other field unchanged.
C40_AddPlayerIgnoresStatus ==
    \A id_ \in Ids, side \in Sides \cup {"z"} :
        SameAsInProgress(game, InProgressWith(game), id_, side)

\* A game over from its creation (no time on the clocks) whose black slot was
\* filled after that, and whose white slot is still empty.
C40_Witness ==
    /\ game.time_controls = 0
    /\ ~in_progress(game)
    /\ game.players[BLACK] # None
    /\ game.players[WHITE] = None

====
